---------------------------- MODULE Spec2Model ----------------------------
(***************************************************************************)
(* Habit tracker bot (src/bot.py, src/validate_config.py): the per-user    *)
(* conversation engine, the sheet synchronisation and aggregation engine.  *)
(*                                                                         *)
(* Python values are modelled as follows.  Texts, worksheet cells, session *)
(* state names and column names are strings.  None and an absent           *)
(* dictionary key are the string Nil; a dictionary that may lack the       *)
(* user's key altogether has a companion set of its keys (data_keys,       *)
(* sheet_keys, config_keys).  A worksheet row is a sequence of cells.      *)
(***************************************************************************)
EXTENDS Integers, Sequences, FiniteSets, TLC

VARIABLES
    user_states,      \* bot.py:105  user id -> state name, Nil when None/absent
    user_data,        \* bot.py:106  user id -> draft record (Nil = key not in the dict)
    data_keys,        \* bot.py:106  the user ids that are keys of user_data
    user_sheets,      \* bot.py:107  user id -> sheet id
    sheet_keys,       \* bot.py:107  the user ids that are keys of user_sheets
    FULL_CONFIGs,     \* bot.py:103  user id -> configuration document
    config_keys,      \* bot.py:103  the user ids that are keys of FULL_CONFIGs
    user_setup_complete, \* bot.py:118
    blobs,            \* bot.py:82   the settings bucket: user id -> saved settings
    now,              \* the process clock, datetime.datetime.now()
    raw,              \* worksheet "Diary Raw" of the user's spreadsheet
    diary,            \* worksheet "Diary"
    dreams,           \* worksheet "Dreams"
    thoughts,         \* worksheet "Thoughts"
    shared,           \* the spreadsheets the bot's service account can open
    inflight,         \* handler threads started by webhook() and not yet finished
    probe,            \* input and result of the function under study (function specifications)
    last              \* history: the message handled last and what was done with it

vars == <<user_states, user_data, data_keys, user_sheets, sheet_keys, FULL_CONFIGs,
          config_keys, user_setup_complete, blobs, now, raw, diary, dreams, thoughts,
          shared, inflight, probe, last>>

session_vars == <<user_states, user_data, data_keys>>
settings_vars == <<user_sheets, sheet_keys, FULL_CONFIGs, config_keys,
                   user_setup_complete, blobs>>
store_vars == <<raw, diary, dreams, thoughts, shared>>

-----------------------------------------------------------------------------
(* Bounds of the model *)

\* Largest value of the clock.
MaxTime == 1
\* Largest number of data rows a worksheet takes; past it the store refuses the write.
MaxRows == 3
\* Largest number of header cells of a worksheet drawn for the header functions.
MaxHdrLen == 5
\* Largest number of handler threads of one process running at a time.
MaxInFlight == 2
\* Largest number of configuration updates in a behaviour of the sync engine.
MaxUpdates == 2

Users == {"u1", "u2"}
Nil == "nil"

-----------------------------------------------------------------------------
(* Conversation states, bot.py:88-101 *)

AWAITING_INPUT == "AWAITING_INPUT"
CONFIRMING == "CONFIRMING"
EDITING == "EDITING"
MANUAL_INPUT == "MANUAL_INPUT"
SELECTING_DATE == "SELECTING_DATE"
AWAITING_CUSTOM_DATE == "AWAITING_CUSTOM_DATE"
UPDATING_CONFIG == "UPDATING_CONFIG"
DREAM_INPUT == "DREAM_INPUT"
DREAM_CONFIRMING == "DREAM_CONFIRMING"
DREAM_EDITING == "DREAM_EDITING"
THOUGHTS_INPUT == "THOUGHTS_INPUT"
THOUGHTS_CONFIRMING == "THOUGHTS_CONFIRMING"
THOUGHTS_EDITING == "THOUGHTS_EDITING"

States == {AWAITING_INPUT, CONFIRMING, EDITING, MANUAL_INPUT, SELECTING_DATE,
           AWAITING_CUSTOM_DATE, UPDATING_CONFIG, DREAM_INPUT, DREAM_CONFIRMING,
           DREAM_EDITING, THOUGHTS_INPUT, THOUGHTS_CONFIRMING, THOUGHTS_EDITING}

\* user_data[user_id] = {}
EmptyDraft == [date |-> Nil, user_input |-> Nil, json_output |-> Nil,
               dream_text |-> Nil, thought_text |-> Nil]

\* FULL_CONFIGs.get(user_id, {}) : a document without habits
EmptyConfig == [habits |-> << >>, timezone |-> Nil]

-----------------------------------------------------------------------------
(* Python built-ins on the texts of the model *)

\* str.lower()
Lower(t) ==
    CASE t = "Cancel" -> "cancel"
      [] t = "Yes" -> "yes"
      [] t = "YES" -> "yes"
      [] t = "YESTERDAY" -> "yesterday"
      [] t = "Today" -> "today"
      [] t = "Custom Date" -> "custom date"
      [] t = "No" -> "no"
      [] t = "Datetime" -> "datetime"
      [] t = "Date" -> "date"
      [] t = "Raw_Input" -> "raw_input"
      [] OTHER -> t

\* telebot's util.extract_command: the word after "/" of a text that starts with "/"
extract_command(t) ==
    CASE t = "/start" -> "start"
      [] t = "/help" -> "help"
      [] t = "/cancel" -> "cancel"
      [] t = "/habits" -> "habits"
      [] t = "/manual" -> "manual"
      [] t = "/update_config" -> "update_config"
      [] t = "/set_sheet" -> "set_sheet"
      [] t = "/set_sheet s1" -> "set_sheet"
      [] t = "/dream" -> "dream"
      [] t = "/thoughts" -> "thoughts"
      [] OTHER -> Nil

\* message.text.split() of the /set_sheet texts
split(t) ==
    CASE t = "/set_sheet s1" -> <<"/set_sheet", "s1">>
      [] OTHER -> <<t>>

\* The clock counts half days from 2024-01-01 08:00:00; the day a clock value falls on.
DayOf(t) == t \div 2

\* strftime('%Y-%m-%d') of the day with index d
DateStr(d) ==
    CASE d = -1 -> "2023-12-31"
      [] d = 0 -> "2024-01-01"
      [] d = 1 -> "2024-01-02"
      [] d = 2 -> "2024-01-03"
      [] OTHER -> "2024-01-04"

\* strftime('%Y-%m-%d %H:%M:%S') of clock value t
DatetimeStr(t) ==
    CASE t = 0 -> "2024-01-01 08:00:00"
      [] t = 1 -> "2024-01-01 20:00:00"
      [] t = 2 -> "2024-01-02 08:00:00"
      [] t = 3 -> "2024-01-02 20:00:00"
      [] t = 4 -> "2024-01-03 08:00:00"
      [] OTHER -> "2024-01-03 20:00:00"

ClockValues == 0..5

\* datetime.strptime(s, '%Y-%m-%d %H:%M:%S'): the clock value, -1 for ValueError
strptime_datetime(s) ==
    IF \E t \in ClockValues : DatetimeStr(t) = s
    THEN CHOOSE t \in ClockValues : DatetimeStr(t) = s
    ELSE -1

\* datetime.strptime(text.strip(), '%Y-%m-%d').strftime('%Y-%m-%d'), Nil for ValueError;
\* %m and %d take one or two digits and strftime writes two.
strptime_date(t) ==
    CASE t = "2024-01-01" -> "2024-01-01"
      [] t = "2024-1-2" -> "2024-01-02"
      [] OTHER -> Nil

\* json.loads of the texts of the model: the kind of the decoded value ("invalid" for
\* JSONDecodeError) and, for an object, its keys in order and its values, each with its
\* JSON type t and its JSON text v.
json_loads(t) ==
    CASE t = "{\"x\": 1}" ->
            [kind |-> "object", keys |-> <<"x">>, vals |-> [k \in {"x"} |-> [t |-> "int", v |-> "1"]]]
      [] t = "{\"x\": true, \"y\": \"jog\"}" ->
            [kind |-> "object", keys |-> <<"x", "y">>,
             vals |-> [k \in {"x", "y"} |-> IF k = "x" THEN [t |-> "bool", v |-> "true"]
                                              ELSE [t |-> "str", v |-> "jog"]]]
      [] t = "{\"habits\": {\"x\": {}}}" ->
            [kind |-> "object", keys |-> <<"habits">>,
             vals |-> [k \in {"habits"} |-> [t |-> "object", v |-> "{\"x\": {}}"]]]
      [] t = "{\"telegram_token\": \"t\", \"openai_api_key\": \"k\", \"habits\": {\"x\": {}}, \"reminder_time\": \"09:00\", \"data_directory\": \"d\"}" ->
            [kind |-> "object",
             keys |-> <<"telegram_token", "openai_api_key", "habits", "reminder_time",
                        "data_directory">>,
             vals |-> [k \in {"telegram_token", "openai_api_key", "habits",
                              "reminder_time", "data_directory"} |->
                          IF k = "habits" THEN [t |-> "object", v |-> "{\"x\": {}}"]
                          ELSE IF k = "reminder_time" THEN [t |-> "str", v |-> "09:00"]
                          ELSE [t |-> "str", v |-> "s"]]]
      [] t = "{\"telegram_token\": \"t\", \"openai_api_key\": \"k\", \"habits\": {\"x\": {\"type\": \"integer\", \"description\": \"d\"}}, \"reminder_time\": \"09:00\", \"data_directory\": \"d\"}" ->
            [kind |-> "object",
             keys |-> <<"telegram_token", "openai_api_key", "habits", "reminder_time",
                        "data_directory">>,
             vals |-> [k \in {"telegram_token", "openai_api_key", "habits",
                              "reminder_time", "data_directory"} |->
                          IF k = "habits"
                          THEN [t |-> "object", v |-> "{\"x\": {\"type\": \"integer\", \"description\": \"d\"}}"]
                          ELSE IF k = "reminder_time" THEN [t |-> "str", v |-> "09:00"]
                          ELSE [t |-> "str", v |-> "s"]]]
      [] OTHER -> [kind |-> "invalid", keys |-> << >>, vals |-> << >>]

-----------------------------------------------------------------------------
(* Inbound messages and telebot's choice of the handler *)

\* A text message, or a voice message (message.text is None, message.voice is set).
TextMsg(t) == [type |-> "text", text |-> t]
VoiceMsg == [type |-> "voice", text |-> Nil]

\* The message handlers in the order bot.py registers them: for each its filter, a
\* command (commands=[...]) or a session state (func=lambda ...: user_states.get(id) == S),
\* and its content types (telebot's default is text only).
HandlerTable == <<
    [name |-> "start",                 command |-> "start",         state |-> Nil,                  voice |-> FALSE],
    [name |-> "help_command",          command |-> "help",          state |-> Nil,                  voice |-> FALSE],
    [name |-> "cancel_command",        command |-> "cancel",        state |-> Nil,                  voice |-> FALSE],
    [name |-> "habits_command",        command |-> "habits",        state |-> Nil,                  voice |-> FALSE],
    [name |-> "handle_date_selection", command |-> Nil,             state |-> SELECTING_DATE,       voice |-> FALSE],
    [name |-> "handle_custom_date",    command |-> Nil,             state |-> AWAITING_CUSTOM_DATE, voice |-> FALSE],
    [name |-> "handle_input",          command |-> Nil,             state |-> AWAITING_INPUT,       voice |-> TRUE],
    [name |-> "confirm",               command |-> Nil,             state |-> CONFIRMING,           voice |-> FALSE],
    [name |-> "edit",                  command |-> Nil,             state |-> EDITING,              voice |-> TRUE],
    [name |-> "manual_input_prompt",   command |-> "manual",        state |-> Nil,                  voice |-> FALSE],
    [name |-> "manual_input",          command |-> Nil,             state |-> MANUAL_INPUT,         voice |-> FALSE],
    [name |-> "update_config_command", command |-> "update_config", state |-> Nil,                  voice |-> FALSE],
    [name |-> "handle_updated_config", command |-> Nil,             state |-> UPDATING_CONFIG,      voice |-> FALSE],
    [name |-> "set_sheet",             command |-> "set_sheet",     state |-> Nil,                  voice |-> FALSE],
    [name |-> "dream_command",         command |-> "dream",         state |-> Nil,                  voice |-> FALSE],
    [name |-> "handle_dream_input",    command |-> Nil,             state |-> DREAM_INPUT,          voice |-> TRUE],
    [name |-> "confirm_dream",         command |-> Nil,             state |-> DREAM_CONFIRMING,     voice |-> FALSE],
    [name |-> "edit_dream",            command |-> Nil,             state |-> DREAM_EDITING,        voice |-> TRUE],
    [name |-> "thoughts_command",      command |-> "thoughts",      state |-> Nil,                  voice |-> FALSE],
    [name |-> "handle_thoughts_input", command |-> Nil,             state |-> THOUGHTS_INPUT,       voice |-> TRUE],
    [name |-> "confirm_thoughts",      command |-> Nil,             state |-> THOUGHTS_CONFIRMING,  voice |-> FALSE],
    [name |-> "edit_thoughts",         command |-> Nil,             state |-> THOUGHTS_EDITING,     voice |-> TRUE] >>

\* telebot's _test_message_handler: the content type is one the handler takes and its
\* filter holds (st is user_states.get(message.from_user.id) at the time of the test).
test_message_handler(h, st, m) ==
    /\ m.type = "text" \/ h.voice
    /\ IF h.command # Nil
       THEN m.type = "text" /\ extract_command(m.text) = h.command
       ELSE st = h.state

\* telebot's _notify_command_handlers: the first registered handler whose test holds
\* runs, and no other; Nil when none does.
FirstHandler(st, m) ==
    LET hits == {i \in 1..Len(HandlerTable) : test_message_handler(HandlerTable[i], st, m)}
    IN  IF hits = {} THEN Nil
        ELSE HandlerTable[CHOOSE i \in hits : \A j \in hits : i <= j].name

\* FirstHandler by what the tests read: the state, the content type and the command
\* of the text.
Commands == {HandlerTable[i].command : i \in 1..Len(HandlerTable)}
CommandText(c) == IF c = "set_sheet" THEN "/set_sheet" ELSE IF c = Nil THEN "-" ELSE "/" \o c
FirstHandlerOf ==
    [st \in States \cup {Nil}, type \in {"text", "voice"}, c \in Commands |->
        FirstHandler(st, [type |-> type, text |-> CommandText(c)])]

CommandOf(m) == IF m.type = "text" THEN extract_command(m.text) ELSE Nil

Dispatch(st, m) == FirstHandlerOf[st, m.type, CommandOf(m)]

-----------------------------------------------------------------------------
(* Worksheets *)

\* list.index(x): the first position of x (1-based), 0 for ValueError
IndexOf(s, x) ==
    IF \E i \in 1..Len(s) : s[i] = x
    THEN CHOOSE i \in 1..Len(s) : s[i] = x /\ \A j \in 1..(i - 1) : s[j] # x
    ELSE 0

\* [h.lower() for h in header]
LowerAll(s) == [i \in 1..Len(s) |-> Lower(s[i])]

\* [c for c in s if c.lower() != name]
RECURSIVE Without(_, _)
Without(s, name) ==
    IF s = << >> THEN << >>
    ELSE IF Lower(Head(s)) = name THEN Without(Tail(s), name)
         ELSE <<Head(s)>> \o Without(Tail(s), name)

\* s padded with empty cells to n cells
Pad(s, n) == [i \in 1..(IF Len(s) > n THEN Len(s) ELSE n) |-> IF i <= Len(s) THEN s[i] ELSE ""]

\* list.insert(i, x) with the 0-based index i <= len(s)
Insert(s, i, x) == SubSeq(s, 1, i) \o <<x>> \o SubSeq(s, i + 1, Len(s))

\* Worksheet.row_values(1): the cells of the row up to its last cell that is not blank.
RECURSIVE row_values(_)
row_values(cells) ==
    IF cells # << >> /\ cells[Len(cells)] = ""
    THEN row_values(SubSeq(cells, 1, Len(cells) - 1))
    ELSE cells

\* Worksheet.insert_cols(values=[[x]], col=c): a new column c (1-based) whose first cell
\* is x; the cells at and after column c move one column right, in every row.
InsertColumn(ws, c, x) ==
    [ws EXCEPT !.header = row_values(Insert(Pad(@, c - 1), c - 1, x)),
               !.rows = [r \in 1..Len(@) |-> Insert(Pad(@[r], c - 1), c - 1, "")]]

\* ensure_raw_input_column(sheet)
ensure_raw_input_column(ws) ==
    LET lower == LowerAll(ws.header)
        date_idx == IF IndexOf(lower, "date") = 0 THEN 1 ELSE IndexOf(lower, "date") - 1
    IN  IF IndexOf(lower, "raw_input") = 0
        THEN InsertColumn(ws, date_idx + 2, "raw_input")
        ELSE ws

\* Worksheet.update(values=[row], range_name="1:1"): the cells of row 1 from column A
\* are overwritten by the cells given; the cells of row 1 past them keep their content.
UpdateRow1(old, new) == row_values(new \o SubSeq(old, Len(new) + 1, Len(old)))

\* The spreadsheets of the model, by sheet id.
SheetIds == {"s1"}

\* A worksheet that does not exist, and one freshly made with a header row.
NoWorksheet == [exists |-> FALSE, header |-> << >>, rows |-> << >>]
NewWorksheet(header) == [exists |-> TRUE, header |-> header, rows |-> << >>]

-----------------------------------------------------------------------------
(* append_to_user_sheet: the row of a record under a header *)

\* The cell of a decoded JSON value (bot.py:207-211): a str as it is, anything else
\* through str(value), which writes True, False and None for true, false and null.
PyStr(value) ==
    CASE value.t = "bool" -> (IF value.v = "true" THEN "True" ELSE "False")
      [] value.t = "null" -> "None"
      [] OTHER -> value.v

\* The fixed columns are found by their exact names only.
RowCellExactNames(col, date_val, datetime_val, user_input, json_data) ==
    IF col = "datetime" THEN datetime_val
    ELSE IF col = "date" THEN date_val
    ELSE IF col = "raw_input" THEN (IF user_input = Nil THEN "" ELSE user_input)
    ELSE IF col \in DOMAIN json_data.vals THEN PyStr(json_data.vals[col])
    ELSE ""

\* The cell of column col (bot.py:198-213).
RowCell(col, date_val, datetime_val, user_input, json_data) ==
    IF Lower(col) = "datetime" THEN datetime_val
    ELSE IF Lower(col) = "date" THEN date_val
    ELSE IF Lower(col) = "raw_input" THEN (IF user_input = Nil THEN "" ELSE user_input)
    ELSE IF col \in DOMAIN json_data.vals THEN PyStr(json_data.vals[col])
    ELSE ""

\* The row append_to_user_sheet builds: one cell for each column of the header.
BuildRow(header, date_val, datetime_val, user_input, json_data) ==
    [i \in 1..Len(header) |->
        RowCell(header[i], date_val, datetime_val, user_input, json_data)]

-----------------------------------------------------------------------------
(* aggregate_diary: the latest record of each day *)

\* The comparison turned around: the earlier record of a day would be kept.
Earlier(dt, stored) == dt < stored

\* dt > aggregated[day]["dt"]
Later(dt, stored) == dt > stored

\* One turn of the loop over the records (bot.py:783-795).  aggregated is the dict as
\* the sequence of its entries in insertion order.
AggregateRow(aggregated, row, idx_datetime, idx_date) ==
    IF Len(row) < idx_datetime \/ Len(row) < idx_date THEN aggregated
    ELSE LET day == row[idx_date]
             dt == strptime_datetime(row[idx_datetime])
             at == {i \in 1..Len(aggregated) : aggregated[i].day = day}
         IN  IF dt = -1 THEN aggregated
             ELSE IF at = {} THEN Append(aggregated, [day |-> day, row |-> row, dt |-> dt])
             ELSE LET i == CHOOSE j \in at : TRUE
                  IN  IF Later(dt, aggregated[i].dt)
                      THEN [aggregated EXCEPT ![i] = [day |-> day, row |-> row, dt |-> dt]]
                      ELSE aggregated

RECURSIVE AggregateRows(_, _, _, _)
AggregateRows(aggregated, records, idx_datetime, idx_date) ==
    IF records = << >> THEN aggregated
    ELSE AggregateRows(AggregateRow(aggregated, Head(records), idx_datetime, idx_date),
                       Tail(records), idx_datetime, idx_date)

\* The entries as the dict holds them, in the order their days were first seen.
InsertionOrder(entries) == entries

\* sorted(entries, key=lambda x: x["dt"]): Python's sort is stable.
RECURSIVE SortedByDt(_)
SortedByDt(entries) ==
    IF entries = << >> THEN << >>
    ELSE LET rest == SortedByDt(SubSeq(entries, 1, Len(entries) - 1))
             e == entries[Len(entries)]
             k == Cardinality({i \in 1..Len(rest) : rest[i].dt <= e.dt})
         IN  SubSeq(rest, 1, k) \o <<e>> \o SubSeq(rest, k + 1, Len(rest))

\* What aggregate_diary computes from the values of "Diary Raw" (bot.py:769-798):
\* whether it goes on to rewrite "Diary", and the data rows it writes under the header.
aggregate_rows(header, records) ==
    LET idx_datetime == IndexOf(header, "datetime")
        idx_date == IndexOf(header, "date")
    IN  IF records = << >> \/ idx_datetime = 0 \/ idx_date = 0
        THEN [written |-> FALSE, rows |-> << >>]
        ELSE LET sorted_entries ==
                     SortedByDt(AggregateRows(<< >>, records, idx_datetime, idx_date))
             IN  [written |-> TRUE,
                  rows |-> [i \in 1..Len(sorted_entries) |-> sorted_entries[i].row]]

\* The steps of aggregate_diary that reach the store, in order; the store may fail at
\* any of them ("none": at none).
AggregateFailures == {"none", "open", "read", "clear", "update"}

\* "Diary" after aggregate_diary, the store failing at step fail (bot.py:757-808).
aggregate_diary(raw_ws, diary_ws, fail) ==
    IF fail \in {"open", "read"} \/ ~raw_ws.exists THEN diary_ws
    ELSE LET agg == aggregate_rows(raw_ws.header, raw_ws.rows)
         IN  IF ~agg.written THEN diary_ws
             ELSE IF fail = "clear" THEN [diary_ws EXCEPT !.exists = TRUE]
             ELSE IF fail = "update" THEN NewWorksheet(<< >>)
             ELSE [exists |-> TRUE, header |-> raw_ws.header, rows |-> agg.rows]

-----------------------------------------------------------------------------
(* sync_sheet_columns: the header of "Diary Raw" after a configuration update *)

\* The habit names appended whether the header has them or not.
ReconcileAppendAll(current_header, new_habits) ==
    current_header \o new_habits

\* The header made anew from the fixed columns and the habit names.
ReconcileFresh(current_header, new_habits) ==
    <<"datetime", "date", "raw_input">> \o new_habits

\* The header list built from the current header and the habit names (bot.py:733-751).
ReconcileHeader(current_header, new_habits) ==
    LET h1 == IF Len(current_header) < 1 \/ Lower(current_header[1]) # "datetime"
              THEN Insert(Without(current_header, "datetime"), 0, "datetime")
              ELSE current_header
        h2 == IF Len(h1) < 2 \/ Lower(h1[2]) # "date"
              THEN Insert(Without(h1, "date"), 1, "date")
              ELSE h1
        h3 == IF Len(h2) < 3 \/ Lower(h2[3]) # "raw_input"
              THEN Insert(Without(h2, "raw_input"), 2, "raw_input")
              ELSE h2
        AddHabits[n \in 0..Len(new_habits)] ==
            IF n = 0 THEN h3
            ELSE IF IndexOf(AddHabits[n - 1], new_habits[n]) = 0
                 THEN Append(AddHabits[n - 1], new_habits[n])
                 ELSE AddHabits[n - 1]
    IN  AddHabits[Len(new_habits)]

\* "Diary Raw" after sync_sheet_columns (bot.py:728-752): the raw_input column is
\* ensured, the header list is rebuilt and written over row 1.
sync_sheet_columns(ws, new_habits) ==
    LET sheet == ensure_raw_input_column(ws)
    IN  [sheet EXCEPT !.header = UpdateRow1(@, ReconcileHeader(@, new_habits))]

-----------------------------------------------------------------------------
(* The outside world: transcription, the extractor, the configuration documents *)

\* What transcribe_voice_message returns for a voice message: a text, or None.
Transcripts == {"ate well", Nil}

\* What the extractor call yields: "error" (the API call raises), "undecodable" (the
\* arguments are not JSON), or the JSON text of a record.
ExtractorResults == {"error", "undecodable", "{\"x\": 1}", "{\"x\": true, \"y\": \"jog\"}"}

\* js_validate(instance=new_cfg, schema=config_schema) passes (validate_config.py:22-32)
SchemaValid(doc) ==
    /\ doc.kind = "object"
    /\ \A k \in {"telegram_token", "openai_api_key", "habits", "reminder_time",
                 "data_directory"} :
           k \in DOMAIN doc.vals
    /\ doc.vals["habits"].t = "object"
    /\ doc.vals["reminder_time"].t = "str"

\* validate_habits(habits) returns a bool (validate_config.py:49-118): False for the
\* habit "x" that has no 'type', True for the one with a type and a description.
validate_habits(habits) == habits.v \notin {"{\"x\": {}}"}

\* ok, errors = <result>: only a pair unpacks into two names; a bool raises TypeError.
UnpacksToPair(result) == result \notin BOOLEAN

NoBlob == [exists |-> FALSE, sheet_id |-> Nil, config |-> EmptyConfig]

NoEvent == [user |-> Nil, handler |-> Nil, command |-> Nil, pre |-> Nil,
            result |-> Nil, rebuild |-> Nil, request |-> Nil, prior |-> Nil]

-----------------------------------------------------------------------------
(* Pieces of the handlers *)

\* The record of the message being handled: who sent it, the command it carries, the
\* handler that took it, the session state it found, what the handler did and what
\* became of the rebuild.
NoteStore(u, h, m, result, rebuild) ==
    last' = [NoEvent EXCEPT !.user = u, !.handler = h, !.command = CommandOf(m),
                            !.pre = user_states[u], !.result = result,
                            !.rebuild = rebuild]

Note(u, h, m, result) == NoteStore(u, h, m, result, Nil)

\* The state is set and the draft kept as it is.
SetSessionKeepingDraft(u, st, d) ==
    /\ user_states' = [user_states EXCEPT ![u] = st]
    /\ UNCHANGED <<user_data, data_keys>>

\* user_states[user_id] = st ; user_data[user_id] = d
SetSession(u, st, d) ==
    /\ user_states' = [user_states EXCEPT ![u] = st]
    /\ user_data' = [user_data EXCEPT ![u] = d]
    /\ data_keys' = data_keys \cup {u}

\* user_states[user_id] = st
SetState(u, st) ==
    /\ user_states' = [user_states EXCEPT ![u] = st]
    /\ UNCHANGED <<user_data, data_keys>>

\* Every session is reset, not only the sender's.
cancel_everyone(u) ==
    /\ user_states' = [v \in Users |-> Nil]
    /\ user_data' = [v \in Users |-> EmptyDraft]
    /\ data_keys' = data_keys \cup {u}

\* cancel_process(message), bot.py:338-344
cancel_process(u) == SetSession(u, Nil, EmptyDraft)

\* ensure_setup(message), bot.py:1016-1022
ensure_setup(u) == u \in user_setup_complete

\* The text a handler of text and voice works on: message.text, or what
\* transcribe_voice_message returns (None when it fails).
InputTexts(m) == IF m.type = "voice" THEN Transcripts ELSE {m.text}

\* message.text and message.text.lower() == 'cancel'
IsCancel(m) == m.type = "text" /\ Lower(m.text) = "cancel"

-----------------------------------------------------------------------------
(* Commands *)

\* /start begins anew: the session is reset as a cancellation resets it.
start_resetting(u, m) ==
    /\ Dispatch(user_states[u], m) = "start"
    /\ cancel_process(u)
    /\ Note(u, "start", m, "done")
    /\ UNCHANGED <<settings_vars, store_vars, now, inflight, probe>>

\* start, bot.py:282-302
start(u, m) ==
    /\ Dispatch(user_states[u], m) = "start"
    /\ Note(u, "start", m, "done")
    /\ UNCHANGED <<session_vars, settings_vars, store_vars, now, inflight, probe>>

\* help_command, bot.py:305-325
help_command(u, m) ==
    /\ Dispatch(user_states[u], m) = "help_command"
    /\ Note(u, "help_command", m, "done")
    /\ UNCHANGED <<session_vars, settings_vars, store_vars, now, inflight, probe>>

\* cancel_command, bot.py:328-335
cancel_command(u, m) ==
    /\ Dispatch(user_states[u], m) = "cancel_command"
    /\ SetSession(u, Nil, EmptyDraft)
    /\ Note(u, "cancel_command", m, "cancelled")
    /\ UNCHANGED <<settings_vars, store_vars, now, inflight, probe>>

\* The flow is entered and the draft of the earlier flow kept.
habits_command_keeping_draft(u, m) ==
    /\ Dispatch(user_states[u], m) = "habits_command"
    /\ IF ensure_setup(u)
       THEN SetState(u, SELECTING_DATE) /\ Note(u, "habits_command", m, "done")
       ELSE UNCHANGED session_vars /\ Note(u, "habits_command", m, "setup_prompt")
    /\ UNCHANGED <<settings_vars, store_vars, now, inflight, probe>>

\* habits_command, bot.py:347-361
habits_command(u, m) ==
    /\ Dispatch(user_states[u], m) = "habits_command"
    /\ IF ensure_setup(u)
       THEN SetSession(u, SELECTING_DATE, EmptyDraft) /\ Note(u, "habits_command", m, "done")
       ELSE UNCHANGED session_vars /\ Note(u, "habits_command", m, "setup_prompt")
    /\ UNCHANGED <<settings_vars, store_vars, now, inflight, probe>>

\* manual_input_prompt, bot.py:635-643
manual_input_prompt(u, m) ==
    /\ Dispatch(user_states[u], m) = "manual_input_prompt"
    /\ IF ensure_setup(u)
       THEN SetState(u, MANUAL_INPUT) /\ Note(u, "manual_input_prompt", m, "done")
       ELSE UNCHANGED session_vars /\ Note(u, "manual_input_prompt", m, "setup_prompt")
    /\ UNCHANGED <<settings_vars, store_vars, now, inflight, probe>>

\* update_config_command, bot.py:672-719
update_config_command(u, m) ==
    /\ Dispatch(user_states[u], m) = "update_config_command"
    /\ IF u \in sheet_keys
       THEN SetState(u, UPDATING_CONFIG) /\ Note(u, "update_config_command", m, "done")
       ELSE UNCHANGED session_vars /\ Note(u, "update_config_command", m, "link_prompt")
    /\ UNCHANGED <<settings_vars, store_vars, now, inflight, probe>>

\* dream_command, bot.py:1026-1037
dream_command(u, m) ==
    /\ Dispatch(user_states[u], m) = "dream_command"
    /\ IF ensure_setup(u)
       THEN SetState(u, DREAM_INPUT) /\ Note(u, "dream_command", m, "done")
       ELSE UNCHANGED session_vars /\ Note(u, "dream_command", m, "setup_prompt")
    /\ UNCHANGED <<settings_vars, store_vars, now, inflight, probe>>

\* thoughts_command, bot.py:1171-1181
thoughts_command(u, m) ==
    /\ Dispatch(user_states[u], m) = "thoughts_command"
    /\ IF ensure_setup(u)
       THEN SetState(u, THOUGHTS_INPUT) /\ Note(u, "thoughts_command", m, "done")
       ELSE UNCHANGED session_vars /\ Note(u, "thoughts_command", m, "setup_prompt")
    /\ UNCHANGED <<settings_vars, store_vars, now, inflight, probe>>

-----------------------------------------------------------------------------
(* The habits flow *)

\* handle_date_selection, bot.py:364-385
handle_date_selection(u, m) ==
    /\ Dispatch(user_states[u], m) = "handle_date_selection"
    /\ LET text == Lower(m.text)
           day == IF text = "today" THEN DayOf(now) ELSE DayOf(now) - 1
       IN  IF text = "cancel"
           THEN cancel_process(u) /\ Note(u, "handle_date_selection", m, "cancelled")
           ELSE IF text \in {"today", "yesterday"}
           THEN IF u \in data_keys
                THEN /\ SetSession(u, AWAITING_INPUT,
                                   [user_data[u] EXCEPT !.date = DateStr(day)])
                     /\ Note(u, "handle_date_selection", m, "done")
                ELSE UNCHANGED session_vars /\ Note(u, "handle_date_selection", m, "KeyError")
           ELSE IF text = "custom date"
           THEN SetState(u, AWAITING_CUSTOM_DATE) /\ Note(u, "handle_date_selection", m, "done")
           ELSE UNCHANGED session_vars /\ Note(u, "handle_date_selection", m, "invalid")
    /\ UNCHANGED <<settings_vars, store_vars, now, inflight, probe>>

\* handle_custom_date, bot.py:388-401
handle_custom_date(u, m) ==
    /\ Dispatch(user_states[u], m) = "handle_custom_date"
    /\ IF Lower(m.text) = "cancel"
       THEN cancel_process(u) /\ Note(u, "handle_custom_date", m, "cancelled")
       ELSE IF strptime_date(m.text) = Nil
       THEN UNCHANGED session_vars /\ Note(u, "handle_custom_date", m, "invalid")
       ELSE IF u \in data_keys
       THEN /\ SetSession(u, AWAITING_INPUT,
                          [user_data[u] EXCEPT !.date = strptime_date(m.text)])
            /\ Note(u, "handle_custom_date", m, "done")
       ELSE UNCHANGED session_vars /\ Note(u, "handle_custom_date", m, "KeyError")
    /\ UNCHANGED <<settings_vars, store_vars, now, inflight, probe>>

\* The session after handle_input has its text (bot.py:432-443): the raw input is
\* stored before the extractor is called.
StoreUserInput(u, text) ==
    [user_data EXCEPT ![u].user_input = text]

\* The session after the extractor call of handle_input or edit returned out, from the
\* drafts data (bot.py:453-501, 582-632).
AfterExtraction(u, data, out) ==
    IF out \in {"error", "undecodable"}
    THEN user_data' = data /\ UNCHANGED <<user_states, data_keys>>
    ELSE /\ user_data' = [data EXCEPT ![u].json_output = out]
         /\ user_states' = [user_states EXCEPT ![u] = CONFIRMING]
         /\ UNCHANGED data_keys

\* The user contents of the request also carry the text the draft held before.
ExtractionRequestWithDraft(draft, user_input) ==
    IF draft.user_input = Nil THEN <<user_input>> ELSE <<draft.user_input, user_input>>

\* The contents with role "user" of the request handle_input sends to the extractor
\* (bot.py:453-466), the draft being as the message found it.
ExtractionRequest(draft, user_input) == <<user_input>>

\* The event of a handle_input that called the extractor: what was sent, and the raw
\* input the draft held when the message came.
NoteRequest(u, m, result, text) ==
    last' = [NoEvent EXCEPT !.user = u, !.handler = "handle_input",
                            !.command = CommandOf(m), !.pre = user_states[u],
                            !.result = result,
                            !.request = ExtractionRequest(user_data[u], text),
                            !.prior = user_data[u].user_input]

\* handle_input, bot.py:423-501
handle_input(u, m) ==
    /\ Dispatch(user_states[u], m) = "handle_input"
    /\ \E text \in InputTexts(m), out \in ExtractorResults :
          IF IsCancel(m)
          THEN cancel_process(u) /\ Note(u, "handle_input", m, "cancelled")
          ELSE IF text = Nil
          THEN UNCHANGED session_vars /\ Note(u, "handle_input", m, "no_transcript")
          ELSE IF u \notin data_keys
          THEN UNCHANGED session_vars /\ Note(u, "handle_input", m, "KeyError")
          ELSE IF u \notin config_keys
          THEN /\ user_data' = StoreUserInput(u, text)
               /\ UNCHANGED <<user_states, data_keys>>
               /\ Note(u, "handle_input", m, "KeyError")
          ELSE /\ AfterExtraction(u, StoreUserInput(u, text), out)
               /\ NoteRequest(u, m,
                              IF out \in {"error", "undecodable"} THEN out ELSE "extracted",
                              text)
    /\ UNCHANGED <<settings_vars, store_vars, now, inflight, probe>>

\* The contents that follow the system prompt in the request edit sends to the
\* extractor (bot.py:594-597): the raw input of the draft as user, the record of the
\* draft as assistant, the correction as user.
CorrectionRequest(draft, correction) ==
    <<draft.user_input, draft.json_output, correction>>

\* The event of an edit that called the extractor: what was sent.
NoteCorrection(u, m, result, correction) ==
    last' = [NoEvent EXCEPT !.user = u, !.handler = "edit",
                            !.command = CommandOf(m), !.pre = user_states[u],
                            !.result = result,
                            !.request = CorrectionRequest(user_data[u], correction),
                            !.prior = user_data[u].user_input]

\* The correction is stored as the raw input of the draft, as handle_input stores its
\* text.
edit_storing_correction(u, m) ==
    /\ Dispatch(user_states[u], m) = "edit"
    /\ \E correction \in InputTexts(m), out \in ExtractorResults :
          IF IsCancel(m)
          THEN cancel_process(u) /\ Note(u, "edit", m, "cancelled")
          ELSE IF correction = Nil
          THEN UNCHANGED session_vars /\ Note(u, "edit", m, "no_transcript")
          ELSE IF u \notin config_keys \/ u \notin data_keys
                  \/ user_data[u].user_input = Nil \/ user_data[u].json_output = Nil
          THEN UNCHANGED session_vars /\ Note(u, "edit", m, "KeyError")
          ELSE /\ AfterExtraction(u, StoreUserInput(u, correction), out)
               /\ NoteCorrection(u, m,
                                 IF out \in {"error", "undecodable"} THEN out
                                 ELSE "extracted",
                                 correction)
    /\ UNCHANGED <<settings_vars, store_vars, now, inflight, probe>>

\* edit, bot.py:558-632
edit(u, m) ==
    /\ Dispatch(user_states[u], m) = "edit"
    /\ \E correction \in InputTexts(m), out \in ExtractorResults :
          IF IsCancel(m)
          THEN cancel_process(u) /\ Note(u, "edit", m, "cancelled")
          ELSE IF correction = Nil
          THEN UNCHANGED session_vars /\ Note(u, "edit", m, "no_transcript")
          ELSE IF u \notin config_keys \/ u \notin data_keys
                  \/ user_data[u].user_input = Nil \/ user_data[u].json_output = Nil
          THEN UNCHANGED session_vars /\ Note(u, "edit", m, "KeyError")
          ELSE /\ AfterExtraction(u, user_data, out)
               /\ NoteCorrection(u, m,
                                 IF out \in {"error", "undecodable"} THEN out
                                 ELSE "extracted",
                                 correction)
    /\ UNCHANGED <<settings_vars, store_vars, now, inflight, probe>>

\* json.loads(user_data[user_id]['json_output']) of confirm, {} when it raises
\* (bot.py:527-531)
EmptyObject == [kind |-> "object", keys |-> << >>, vals |-> << >>]
ConfirmedRecord(draft) ==
    IF draft.json_output = Nil \/ json_loads(draft.json_output).kind # "object"
    THEN EmptyObject
    ELSE json_loads(draft.json_output)

\* Whether a call of the store goes through: never for a spreadsheet the bot cannot
\* open, and any call may fail for one it can.
StoreAnswers(sid) == IF sid \in shared THEN BOOLEAN ELSE {FALSE}

\* append_to_user_sheet succeeds (bot.py:183-224): the store answers (ok) and takes the
\* row, and "Diary Raw" exists.
CanAppend(ws, ok) == ok /\ ws.exists /\ Len(ws.rows) < MaxRows

\* "Diary Raw" after append_to_user_sheet appended the row of the draft.
append_to_user_sheet(ws, draft, date_val, datetime_val) ==
    [ws EXCEPT !.rows = Append(@, BuildRow(ws.header, date_val, datetime_val,
                                           draft.user_input, ConfirmedRecord(draft)))]

\* What became of the rebuild that follows an append.
RebuildOutcome(raw_ws, fail) ==
    IF fail # "none" THEN "failed"
    ELSE IF aggregate_rows(raw_ws.header, raw_ws.rows).written THEN "done" ELSE "skipped"

\* date_val of confirm (bot.py:515-516): the date of the draft, today's without one.
DateVal(draft) == IF draft.date = Nil THEN DateStr(DayOf(now)) ELSE draft.date

\* The row is kept only when the rebuild went through as well.
SaveConfirmedAtomic(sid, draft, ok, fail) ==
    LET appended == append_to_user_sheet(raw[sid], draft, DateVal(draft), DatetimeStr(now))
    IN  IF CanAppend(raw[sid], ok) /\ fail = "none"
        THEN /\ raw' = [raw EXCEPT ![sid] = appended]
             /\ diary' = [diary EXCEPT ![sid] = aggregate_diary(appended, @, fail)]
        ELSE UNCHANGED <<raw, diary>>

\* The store part of a confirmed habits draft (bot.py:526-540): the row is appended to
\* "Diary Raw" and, when that succeeded, "Diary" is rebuilt.
SaveConfirmed(sid, draft, ok, fail) ==
    LET appended == append_to_user_sheet(raw[sid], draft, DateVal(draft), DatetimeStr(now))
    IN  IF CanAppend(raw[sid], ok)
        THEN /\ raw' = [raw EXCEPT ![sid] = appended]
             /\ diary' = [diary EXCEPT ![sid] = aggregate_diary(appended, @, fail)]
        ELSE UNCHANGED <<raw, diary>>

SaveRebuild(sid, draft, ok, fail) ==
    IF CanAppend(raw[sid], ok)
    THEN RebuildOutcome(append_to_user_sheet(raw[sid], draft, DateVal(draft),
                                             DatetimeStr(now)), fail)
    ELSE Nil

\* confirm, bot.py:504-555
confirm(u, m) ==
    /\ Dispatch(user_states[u], m) = "confirm"
    /\ LET user_response == Lower(m.text)
       IN  IF user_response = "cancel"
           THEN /\ cancel_process(u) /\ Note(u, "confirm", m, "cancelled")
                /\ UNCHANGED store_vars
           ELSE IF user_response = "yes"
           THEN IF u \notin data_keys
                THEN /\ UNCHANGED <<session_vars, store_vars>>
                     /\ Note(u, "confirm", m, "KeyError")
                ELSE \E ok \in StoreAnswers(user_sheets[u]), fail \in AggregateFailures :
                       LET sid == user_sheets[u]
                       IN  /\ IF u \in sheet_keys
                              THEN /\ SaveConfirmed(sid, user_data[u], ok, fail)
                                   /\ NoteStore(u, "confirm", m,
                                                IF CanAppend(raw[sid], ok) THEN "appended"
                                                ELSE "append_failed",
                                                SaveRebuild(sid, user_data[u], ok, fail))
                              ELSE /\ UNCHANGED <<raw, diary>>
                                   /\ Note(u, "confirm", m, "no_sheet")
                           /\ SetSession(u, Nil, EmptyDraft)
                           /\ UNCHANGED <<dreams, thoughts, shared>>
           ELSE IF user_response = "no"
           THEN /\ SetState(u, EDITING) /\ Note(u, "confirm", m, "no")
                /\ UNCHANGED store_vars
           ELSE /\ UNCHANGED <<session_vars, store_vars>>
                /\ Note(u, "confirm", m, "invalid")
    /\ UNCHANGED <<settings_vars, now, inflight, probe>>

-----------------------------------------------------------------------------
(* The manual flow *)

\* manual_input, bot.py:646-669
manual_input(u, m) ==
    /\ Dispatch(user_states[u], m) = "manual_input"
    /\ IF Lower(m.text) = "cancel"
       THEN cancel_process(u) /\ Note(u, "manual_input", m, "cancelled")
       ELSE IF json_loads(m.text).kind = "invalid"
       THEN UNCHANGED session_vars /\ Note(u, "manual_input", m, "invalid")
       ELSE IF u \notin data_keys
       THEN UNCHANGED session_vars /\ Note(u, "manual_input", m, "KeyError")
       ELSE SetSession(u, Nil, EmptyDraft) /\ Note(u, "manual_input", m, "done")
    /\ UNCHANGED <<settings_vars, store_vars, now, inflight, probe>>

-----------------------------------------------------------------------------
(* The dream flow and the thoughts flow *)

\* A voice message that cannot be transcribed takes the turn: the flow goes on to the
\* confirmation.
TextInputConsumingTurn(u, m, h, field, confirming) ==
    /\ Dispatch(user_states[u], m) = h
    /\ \E text \in InputTexts(m) :
          IF IsCancel(m)
          THEN cancel_process(u) /\ Note(u, h, m, "cancelled")
          ELSE IF text = Nil
          THEN SetState(u, confirming) /\ Note(u, h, m, "no_transcript")
          ELSE /\ SetSession(u, confirming,
                             [(IF u \in data_keys THEN user_data[u] ELSE EmptyDraft)
                                 EXCEPT ![field] = text])
               /\ Note(u, h, m, "done")
    /\ UNCHANGED <<settings_vars, store_vars, now, inflight, probe>>

\* handle_dream_input (bot.py:1041-1075) with field "dream_text" and state
\* DREAM_CONFIRMING, handle_thoughts_input (bot.py:1185-1210) with "thought_text" and
\* THOUGHTS_CONFIRMING: the key of the user is made when it is not in user_data.
TextInput(u, m, h, field, confirming) ==
    /\ Dispatch(user_states[u], m) = h
    /\ \E text \in InputTexts(m) :
          IF IsCancel(m)
          THEN cancel_process(u) /\ Note(u, h, m, "cancelled")
          ELSE IF text = Nil
          THEN UNCHANGED session_vars /\ Note(u, h, m, "no_transcript")
          ELSE /\ SetSession(u, confirming,
                             [(IF u \in data_keys THEN user_data[u] ELSE EmptyDraft)
                                 EXCEPT ![field] = text])
               /\ Note(u, h, m, "done")
    /\ UNCHANGED <<settings_vars, store_vars, now, inflight, probe>>

handle_dream_input(u, m) ==
    TextInput(u, m, "handle_dream_input", "dream_text", DREAM_CONFIRMING)

handle_thoughts_input(u, m) ==
    TextInput(u, m, "handle_thoughts_input", "thought_text", THOUGHTS_CONFIRMING)

\* edit_dream (bot.py:1135-1167), edit_thoughts (bot.py:1264-1289)
TextEdit(u, m, h, field, confirming) ==
    /\ Dispatch(user_states[u], m) = h
    /\ \E text \in InputTexts(m) :
          IF IsCancel(m)
          THEN cancel_process(u) /\ Note(u, h, m, "cancelled")
          ELSE IF text = Nil
          THEN UNCHANGED session_vars /\ Note(u, h, m, "no_transcript")
          ELSE IF u \notin data_keys
          THEN UNCHANGED session_vars /\ Note(u, h, m, "KeyError")
          ELSE /\ SetSession(u, confirming, [user_data[u] EXCEPT ![field] = text])
               /\ Note(u, h, m, "done")
    /\ UNCHANGED <<settings_vars, store_vars, now, inflight, probe>>

edit_dream(u, m) == TextEdit(u, m, "edit_dream", "dream_text", DREAM_CONFIRMING)

edit_thoughts(u, m) == TextEdit(u, m, "edit_thoughts", "thought_text", THOUGHTS_CONFIRMING)

\* The text is written under raw_input only.
SaveTextOnce(ws, column, text) ==
    LET sheet == IF ws.exists THEN ws
                 ELSE NewWorksheet(<<"datetime", "date", "raw_input", column>>)
    IN  [sheet EXCEPT !.rows = Append(@, <<DatetimeStr(now), DateStr(DayOf(now)),
                                           text, "">>)]

\* The worksheet of dreams or thoughts after a confirmed text is saved
\* (bot.py:1091-1109, 1224-1240): made with its header when absent, then one row
\* [datetime, date, text, text].
SaveText(ws, column, text) ==
    LET sheet == IF ws.exists THEN ws
                 ELSE NewWorksheet(<<"datetime", "date", "raw_input", column>>)
    IN  [sheet EXCEPT !.rows = Append(@, <<DatetimeStr(now), DateStr(DayOf(now)),
                                           text, text>>)]

\* The store takes the row of a confirmed text: it answers, the text is in the draft.
CanSaveText(u, ws, field, ok) ==
    /\ ok /\ Len(ws.rows) < MaxRows
    /\ u \in data_keys /\ user_data[u][field] # Nil

\* Any answer that is not "no" or "cancel" is taken for a "yes" that saves nothing.
TextConfirmTakingAnything(u, m, h, field, column, editing, sheets, saved) ==
    /\ Dispatch(user_states[u], m) = h
    /\ LET user_response == Lower(m.text)
       IN  IF user_response = "cancel"
           THEN /\ cancel_process(u) /\ Note(u, h, m, "cancelled")
                /\ saved = sheets
           ELSE IF user_response = "no"
           THEN /\ SetState(u, editing) /\ Note(u, h, m, "no")
                /\ saved = sheets
           ELSE /\ SetSession(u, Nil, EmptyDraft)
                /\ Note(u, h, m, IF user_response = "yes" THEN "append_failed" ELSE "invalid")
                /\ saved = sheets
    /\ UNCHANGED <<settings_vars, now, inflight, probe>>

\* confirm_dream (bot.py:1079-1131) on sheets = dreams, confirm_thoughts
\* (bot.py:1214-1260) on sheets = thoughts; the new value of sheets.
TextConfirm(u, m, h, field, column, editing, sheets, saved) ==
    /\ Dispatch(user_states[u], m) = h
    /\ LET user_response == Lower(m.text)
       IN  IF user_response = "cancel"
           THEN /\ cancel_process(u) /\ Note(u, h, m, "cancelled")
                /\ saved = sheets
           ELSE IF user_response = "yes"
           THEN \E ok \in StoreAnswers(user_sheets[u]) :
                   /\ IF u \in sheet_keys /\ CanSaveText(u, sheets[user_sheets[u]], field, ok)
                      THEN /\ saved = [sheets EXCEPT ![user_sheets[u]] =
                                          SaveText(@, column, user_data[u][field])]
                           /\ Note(u, h, m, "appended")
                      ELSE /\ saved = sheets
                           /\ Note(u, h, m, IF u \in sheet_keys THEN "append_failed"
                                            ELSE "no_sheet")
                   /\ SetSession(u, Nil, EmptyDraft)
           ELSE IF user_response = "no"
           THEN /\ SetState(u, editing) /\ Note(u, h, m, "no")
                /\ saved = sheets
           ELSE /\ UNCHANGED session_vars /\ Note(u, h, m, "invalid")
                /\ saved = sheets
    /\ UNCHANGED <<settings_vars, now, inflight, probe>>

confirm_dream(u, m) ==
    /\ TextConfirm(u, m, "confirm_dream", "dream_text", "dream", DREAM_EDITING,
                   dreams, dreams')
    /\ UNCHANGED <<raw, diary, thoughts, shared>>

confirm_thoughts(u, m) ==
    /\ TextConfirm(u, m, "confirm_thoughts", "thought_text", "thought", THOUGHTS_EDITING,
                   thoughts, thoughts')
    /\ UNCHANGED <<raw, diary, dreams, shared>>

-----------------------------------------------------------------------------
(* Settings: linking a sheet, updating the configuration, restarting *)

\* save_user_settings(user_id), bot.py:123-132: the blob written for the user, given
\* the sheet ids and configurations in memory.
SavedBlob(u, sheets, keys, configs, ckeys) ==
    [exists |-> TRUE,
     sheet_id |-> IF u \in keys THEN sheets[u] ELSE Nil,
     config |-> IF u \in ckeys THEN configs[u] ELSE EmptyConfig]

\* One worksheet block of create_diary_sheets (bot.py:887-940): the worksheet is made
\* with its header when absent; "Diary Raw" and "Diary" (column = Nil) then get their
\* raw_input column ensured, an existing "Dreams" or "Thoughts" also gets its column.
CreatedWorksheet(ws, column) ==
    IF column = Nil
    THEN ensure_raw_input_column(
             IF ws.exists THEN ws ELSE NewWorksheet(<<"datetime", "date", "raw_input">>))
    ELSE IF ~ws.exists THEN NewWorksheet(<<"datetime", "date", "raw_input", column>>)
    ELSE LET sheet == ensure_raw_input_column(ws)
         IN  IF IndexOf(sheet.header, column) = 0
             THEN [sheet EXCEPT !.header = Append(@, column)]
             ELSE sheet

\* create_diary_sheets(user_id), bot.py:879-944: the four blocks in order; the store
\* fails after upto of them (4: it does not fail) and the rest is skipped.
create_diary_sheets(sid, upto) ==
    /\ raw' = [raw EXCEPT ![sid] = IF upto >= 1 THEN CreatedWorksheet(@, Nil) ELSE @]
    /\ diary' = [diary EXCEPT ![sid] = IF upto >= 2 THEN CreatedWorksheet(@, Nil) ELSE @]
    /\ dreams' = [dreams EXCEPT ![sid] = IF upto >= 3 THEN CreatedWorksheet(@, "dream") ELSE @]
    /\ thoughts' = [thoughts EXCEPT ![sid] =
                       IF upto >= 4 THEN CreatedWorksheet(@, "thought") ELSE @]
    /\ UNCHANGED shared

\* set_sheet, bot.py:950-968.  saved: the settings bucket takes the blob; when it does
\* not, save_user_settings raises and the handler ends there.
set_sheet(u, m) ==
    /\ Dispatch(user_states[u], m) = "set_sheet"
    /\ IF Len(split(m.text)) < 2
       THEN /\ UNCHANGED <<settings_vars, store_vars>>
            /\ Note(u, "set_sheet", m, "IndexError")
       ELSE \E saved \in BOOLEAN, upto \in 0..4 :
               LET sheet_id == split(m.text)[2]
               IN  /\ upto > 0 => sheet_id \in shared
                   /\ user_sheets' = [user_sheets EXCEPT ![u] = sheet_id]
                   /\ sheet_keys' = sheet_keys \cup {u}
                   /\ UNCHANGED <<FULL_CONFIGs, config_keys, user_setup_complete>>
                   /\ IF saved
                      THEN /\ blobs' = [blobs EXCEPT ![u] =
                                           SavedBlob(u, user_sheets', sheet_keys',
                                                     FULL_CONFIGs, config_keys)]
                           /\ create_diary_sheets(sheet_id, upto)
                           /\ Note(u, "set_sheet", m, "linked")
                      ELSE /\ UNCHANGED <<blobs, store_vars>>
                           /\ Note(u, "set_sheet", m, "save_failed")
    /\ UNCHANGED <<session_vars, now, inflight, probe>>

\* The configuration document of a decoded JSON object, as FULL_CONFIGs keeps it: the
\* habit names in order and the timezone.
ConfigOf(doc) ==
    [habits |-> IF doc.vals["habits"].v \in {"{\"x\": {}}", "{\"x\": {\"type\": \"integer\", \"description\": \"d\"}}"}
                THEN <<"x">> ELSE << >>,
     timezone |-> IF "timezone" \in DOMAIN doc.vals THEN doc.vals["timezone"].v ELSE Nil]

\* Every text but "cancel" is refused and the session left idle.
handle_updated_config_leaving(u, m) ==
    /\ Dispatch(user_states[u], m) = "handle_updated_config"
    /\ SetState(u, Nil)
    /\ Note(u, "handle_updated_config", m,
            IF Lower(m.text) = "cancel" THEN "cancelled" ELSE "invalid")
    /\ UNCHANGED <<settings_vars, store_vars, now, inflight, probe>>

\* handle_updated_config, bot.py:811-875.  The cancel branch sets the state and leaves
\* user_data alone.  A document that passes the schema reaches
\* "ok, errors = validate_habits(...)", where the bool that validate_habits returns
\* does not unpack: the handler ends with TypeError before anything is changed.
handle_updated_config(u, m) ==
    /\ Dispatch(user_states[u], m) = "handle_updated_config"
    /\ LET new_cfg == json_loads(m.text)
       IN  IF Lower(m.text) = "cancel"
           THEN /\ SetState(u, Nil) /\ Note(u, "handle_updated_config", m, "cancelled")
                /\ UNCHANGED <<settings_vars, store_vars>>
           ELSE IF new_cfg.kind = "invalid"
           THEN /\ UNCHANGED <<session_vars, settings_vars, store_vars>>
                /\ Note(u, "handle_updated_config", m, "invalid")
           ELSE IF ~SchemaValid(new_cfg)
           THEN /\ UNCHANGED <<session_vars, settings_vars, store_vars>>
                /\ Note(u, "handle_updated_config", m, "schema")
           ELSE IF ~UnpacksToPair(validate_habits(new_cfg.vals["habits"]))
           THEN /\ UNCHANGED <<session_vars, settings_vars, store_vars>>
                /\ Note(u, "handle_updated_config", m,
                        IF validate_habits(new_cfg.vals["habits"]) THEN "TypeError(True)"
                        ELSE "TypeError(False)")
           ELSE IF ~validate_habits(new_cfg.vals["habits"])[1]
           THEN /\ UNCHANGED <<session_vars, settings_vars, store_vars>>
                /\ Note(u, "handle_updated_config", m, "habits")
           ELSE /\ FULL_CONFIGs' = [FULL_CONFIGs EXCEPT ![u] = ConfigOf(new_cfg)]
                /\ config_keys' = config_keys \cup {u}
                /\ raw' = [raw EXCEPT ![user_sheets[u]] =
                              IF u \in sheet_keys /\ @.exists
                              THEN sync_sheet_columns(@, ConfigOf(new_cfg).habits)
                              ELSE @]
                /\ blobs' = [blobs EXCEPT ![u] =
                                SavedBlob(u, user_sheets, sheet_keys, FULL_CONFIGs',
                                          config_keys')]
                /\ user_setup_complete' = user_setup_complete \cup {u}
                /\ SetState(u, Nil)
                /\ Note(u, "handle_updated_config", m, "updated")
                /\ UNCHANGED <<user_sheets, sheet_keys, diary, dreams, thoughts, shared>>
    /\ UNCHANGED <<now, inflight, probe>>

\* The process ends and starts again: the dictionaries in memory are empty
\* (bot.py:103-118) and load_all_user_settings (bot.py:135-146) fills them from the
\* blobs of the bucket, marking every user that has a blob as set up.
Restart ==
    LET saved == {u \in Users : blobs[u].exists}
    IN  /\ user_states' = [u \in Users |-> Nil]
        /\ user_data' = [u \in Users |-> EmptyDraft]
        /\ data_keys' = {}
        /\ user_sheets' = [u \in Users |-> blobs[u].sheet_id]
        /\ sheet_keys' = saved
        /\ FULL_CONFIGs' = [u \in Users |-> blobs[u].config]
        /\ config_keys' = saved
        /\ user_setup_complete' = saved
        /\ inflight' = {}
        /\ last' = [NoEvent EXCEPT !.handler = "restart"]
        /\ UNCHANGED <<blobs, store_vars, now, probe>>

\* The clock advances.
Tick ==
    /\ now < MaxTime
    /\ now' = now + 1
    /\ last' = [NoEvent EXCEPT !.handler = "tick"]
    /\ UNCHANGED <<session_vars, settings_vars, store_vars, inflight, probe>>

-----------------------------------------------------------------------------
(* The conversation engine, one message handled at a time *)

\* The texts users send.
CommandTexts == {"/start", "/help", "/cancel", "/habits", "/manual", "/update_config",
                 "/set_sheet", "/set_sheet s1", "/dream", "/thoughts"}
ReplyTexts == {"cancel", "Cancel", "today", "YESTERDAY", "custom date", "Yes", "no"}
OtherTexts == {"2024-01-01", "2024-13-40", "ate well", "{\"x\": 1}",
               "{\"habits\": {\"x\": {}}}",
               "{\"telegram_token\": \"t\", \"openai_api_key\": \"k\", \"habits\": {\"x\": {}}, \"reminder_time\": \"09:00\", \"data_directory\": \"d\"}",
               "{\"telegram_token\": \"t\", \"openai_api_key\": \"k\", \"habits\": {\"x\": {\"type\": \"integer\", \"description\": \"d\"}}, \"reminder_time\": \"09:00\", \"data_directory\": \"d\"}"}

Messages == {TextMsg(t) : t \in CommandTexts \cup ReplyTexts \cup OtherTexts} \cup {VoiceMsg}

\* The process has started on an empty settings bucket.
InitMemory ==
    /\ user_states = [u \in Users |-> Nil]
    /\ user_data = [u \in Users |-> EmptyDraft]
    /\ data_keys = {}
    /\ user_sheets = [u \in Users |-> Nil]
    /\ sheet_keys = {}
    /\ FULL_CONFIGs = [u \in Users |-> EmptyConfig]
    /\ config_keys = {}
    /\ user_setup_complete = {}
    /\ blobs = [u \in Users |-> NoBlob]
    /\ now = 0
    /\ inflight = {}
    /\ last = NoEvent

InitStore ==
    /\ shared = {}
    /\ raw = [s \in SheetIds |-> NoWorksheet]
    /\ diary = [s \in SheetIds |-> NoWorksheet]
    /\ dreams = [s \in SheetIds |-> NoWorksheet]
    /\ thoughts = [s \in SheetIds |-> NoWorksheet]

\* The conversation engine while the user's spreadsheet is not shared with the bot's
\* account: every call of the store raises.
Init == InitMemory /\ InitStore /\ probe = Nil

\* telebot hands the message to the first handler that takes it.
Handle(u, m) ==
    \/ start(u, m)
    \/ help_command(u, m)
    \/ cancel_command(u, m)
    \/ habits_command(u, m)
    \/ handle_date_selection(u, m)
    \/ handle_custom_date(u, m)
    \/ handle_input(u, m)
    \/ confirm(u, m)
    \/ edit(u, m)
    \/ manual_input_prompt(u, m)
    \/ manual_input(u, m)
    \/ update_config_command(u, m)
    \/ handle_updated_config(u, m)
    \/ set_sheet(u, m)
    \/ dream_command(u, m)
    \/ handle_dream_input(u, m)
    \/ confirm_dream(u, m)
    \/ edit_dream(u, m)
    \/ thoughts_command(u, m)
    \/ handle_thoughts_input(u, m)
    \/ confirm_thoughts(u, m)
    \/ edit_thoughts(u, m)

Next ==
    \/ \E m \in Messages : Handle("u1", m)
    \/ Restart

Spec == Init /\ [][Next]_vars

-----------------------------------------------------------------------------
(* The sync engine on its own: confirmed drafts appended to a linked spreadsheet *)

\* The headers a worksheet "Diary Raw" of the user's own making may have when the
\* spreadsheet is linked.
UserHeaders == {<<"datetime", "date", "raw_input", "x">>, <<"date", "x", "datetime">>,
                <<"Date", "datetime", "y">>}

\* The drafts a habits flow hands over on "yes": a date of the user's choice (today,
\* yesterday or a custom date), the raw input, the extracted record.
ConfirmedDrafts ==
    {[EmptyDraft EXCEPT !.date = d, !.user_input = "ate well", !.json_output = j] :
        d \in {"2024-01-01", "2024-01-02"},
        j \in {"{\"x\": 1}", "{\"x\": true, \"y\": \"jog\"}"}}

\* The spreadsheet has been linked (create_diary_sheets has run on it): "Diary Raw" is
\* the one the bot made or the user's own with its raw_input column ensured.
InitSync ==
    /\ InitMemory
    /\ shared = SheetIds
    /\ raw \in [SheetIds -> {CreatedWorksheet(ws, Nil) :
                               ws \in {NoWorksheet} \cup {NewWorksheet(h) : h \in UserHeaders}}]
    /\ diary = [s \in SheetIds |-> CreatedWorksheet(NoWorksheet, Nil)]
    /\ dreams = [s \in SheetIds |-> NoWorksheet]
    /\ thoughts = [s \in SheetIds |-> NoWorksheet]
    /\ probe = Nil

\* A draft is confirmed: the store part of confirm.
AppendConfirmed ==
    \E sid \in SheetIds, draft \in ConfirmedDrafts, ok \in BOOLEAN :
      \E fail \in (IF ok THEN AggregateFailures ELSE {"none"}) :
        /\ SaveConfirmed(sid, draft, ok, fail)
        /\ last' = [NoEvent EXCEPT !.handler = "confirm",
                                   !.result = IF CanAppend(raw[sid], ok) THEN "appended"
                                              ELSE "append_failed",
                                   !.rebuild = SaveRebuild(sid, draft, ok, fail)]
        /\ UNCHANGED <<session_vars, settings_vars, dreams, thoughts, shared, now,
                       inflight, probe>>

NextSync == AppendConfirmed \/ Tick

SpecSync == InitSync /\ [][NextSync]_vars

-----------------------------------------------------------------------------
(* Properties of the conversation engine *)

\* The handler a flow command is registered with and the state its flow begins in.
OwnHandler(c) ==
    CASE c = "habits" -> "habits_command"
      [] c = "manual" -> "manual_input_prompt"
      [] c = "dream" -> "dream_command"
      [] c = "thoughts" -> "thoughts_command"
      [] c = "update_config" -> "update_config_command"
      [] OTHER -> Nil

InitialState(c) ==
    CASE c = "habits" -> SELECTING_DATE
      [] c = "manual" -> MANUAL_INPUT
      [] c = "dream" -> DREAM_INPUT
      [] c = "thoughts" -> THOUGHTS_INPUT
      [] c = "update_config" -> UPDATING_CONFIG
      [] OTHER -> Nil

\* C1: whenever "cancel" (in any letter case) or /cancel has just been processed for a
\* user whose session was in a non-idle state, that user's state is None and the
\* user's draft is empty.
C1_CancelFromAnyState ==
    \A u \in Users :
        (last.user = u /\ last.pre # Nil /\ last.result = "cancelled")
            => (user_states[u] = Nil /\ user_data[u] = EmptyDraft)

\* C2: whenever a message carrying /habits, /manual, /dream, /thoughts or
\* /update_config has just been processed for a set-up user, in whatever state the
\* session was, the command's own handler took it and the session is in the initial
\* state of that command's flow.
C2_CommandsAreHardResets ==
    \A u \in Users :
        (last.user = u /\ u \in user_setup_complete /\ OwnHandler(last.command) # Nil)
            => (last.handler = OwnHandler(last.command)
                /\ user_states[u] = InitialState(last.command))

\* C3: whenever /habits, /manual, /dream or /thoughts has just been accepted for a
\* user (it moved the session into its flow), that user has a linked sheet and a
\* configuration that was accepted as valid.
C3_SetupBeforeFlows ==
    \A u \in Users :
        (last.user = u /\ last.command \in {"habits", "manual", "dream", "thoughts"}
         /\ last.handler = OwnHandler(last.command) /\ last.result = "done")
            => (u \in sheet_keys /\ user_sheets[u] # Nil
                /\ u \in config_keys /\ FULL_CONFIGs[u] # EmptyConfig)

\* C16: whenever a document that is well-formed JSON, passes the schema and passes the
\* validation of its habits has just been handled in UPDATING_CONFIG, the user's
\* configuration is the document, the header of a linked "Diary Raw" has its habit,
\* the settings blob holds the configuration, the user is marked set up and the
\* session is idle.
C16_ConfigUpdateSucceeds ==
    \A u \in Users :
        (last.user = u /\ last.handler = "handle_updated_config"
         /\ last.result \in {"TypeError(True)", "updated"})
            => /\ user_states[u] = Nil
               /\ u \in config_keys /\ FULL_CONFIGs[u].habits = <<"x">>
               /\ blobs[u] = SavedBlob(u, user_sheets, sheet_keys, FULL_CONFIGs, config_keys)
               /\ u \in user_setup_complete
               /\ (u \in sheet_keys /\ raw[user_sheets[u]].exists)
                      => \E i \in 1..Len(raw[user_sheets[u]].header) :
                             raw[user_sheets[u]].header[i] = "x"

\* C17: a step that handles, in UPDATING_CONFIG, a text that is not JSON, a document
\* that fails the schema or one whose habits fail their validation leaves the session
\* in UPDATING_CONFIG and changes none of the configurations and timezones in memory,
\* the set-up flags, the worksheets and the settings blobs.
C17_BadConfigChangesNothing ==
    [][\A u \in Users :
          (last'.user = u /\ last'.handler = "handle_updated_config"
           /\ last'.result \in {"invalid", "schema", "TypeError(False)", "habits"})
              => /\ user_states'[u] = UPDATING_CONFIG
                 /\ user_states[u] = UPDATING_CONFIG
                 /\ UNCHANGED <<FULL_CONFIGs, config_keys, user_setup_complete,
                                user_sheets, sheet_keys, raw, diary, blobs>>]_vars

\* A document that passes the schema and whose habit has no type has been handled: the
\* session is still in UPDATING_CONFIG.
C17_Witness ==
    /\ last.handler = "handle_updated_config"
    /\ last.result = "TypeError(False)"
    /\ user_states[last.user] = UPDATING_CONFIG

\* C20: a step of handle_input in which the extractor call raised or returned
\* undecodable output leaves the session in AWAITING_INPUT and stores no record; and
\* every request handle_input sends to the extractor has one user content, the input
\* of the message being handled, whatever an earlier attempt left in the draft.
C20_FailedExtractionLeavesNoTrace ==
    [][\A u \in Users :
          (last'.user = u /\ last'.handler = "handle_input"
           /\ last'.result \in {"error", "undecodable", "extracted"})
              => /\ last'.request = <<user_data'[u].user_input>>
                 /\ last'.result \in {"error", "undecodable"}
                       => /\ user_states[u] = AWAITING_INPUT
                          /\ user_states'[u] = AWAITING_INPUT
                          /\ user_data[u].json_output = Nil
                          /\ user_data'[u].json_output = Nil]_vars

\* An input was extracted after an attempt on another input had failed.
C20_Witness ==
    /\ last.handler = "handle_input"
    /\ last.result = "extracted"
    /\ last.prior # Nil
    /\ last.prior # user_data[last.user].user_input
    /\ last.request = <<user_data[last.user].user_input>>
    /\ user_states[last.user] = CONFIRMING

\* C21: a step of handle_input or edit in which the extractor call raised or returned
\* undecodable output leaves the user's whole draft (date, raw input, record) exactly
\* as the step found it.
C21_FailedExtractionKeepsDraft ==
    [][\A u \in Users :
          (last'.user = u /\ last'.handler \in {"handle_input", "edit"}
           /\ last'.result \in {"error", "undecodable"})
              => user_data'[u] = user_data[u]]_vars

\* C26: whenever /habits has just been handled for a set-up user, in whatever state
\* and with whatever draft the session was, habits_command took it, the session is in
\* SELECTING_DATE and the draft is empty.
C26_HabitsStartsFresh ==
    \A u \in Users :
        (last.user = u /\ last.command = "habits" /\ u \in user_setup_complete)
            => /\ last.handler = "habits_command"
               /\ user_states[u] = SELECTING_DATE
               /\ u \in data_keys
               /\ user_data[u] = EmptyDraft

\* /habits was sent in EDITING, where the draft holds a date, an input and a record.
C26_Witness ==
    /\ last.command = "habits"
    /\ last.pre = EDITING
    /\ last.user \in user_setup_complete
    /\ user_states[last.user] = SELECTING_DATE

\* C29: a step in which handle_input, edit, or a text-entry or editing handler of the
\* dream and thoughts flows could not transcribe a voice message leaves the session
\* state and the draft as they were and sends nothing to the extractor.
C29_FailedTranscriptionKeepsTurn ==
    [][\A u \in Users :
          (last'.user = u /\ last'.result = "no_transcript")
              => /\ last'.handler \in {"handle_input", "edit", "handle_dream_input",
                                       "edit_dream", "handle_thoughts_input",
                                       "edit_thoughts"}
                 /\ user_states'[u] = user_states[u]
                 /\ user_states[u] \in {AWAITING_INPUT, EDITING, DREAM_INPUT, DREAM_EDITING,
                                        THOUGHTS_INPUT, THOUGHTS_EDITING}
                 /\ user_data'[u] = user_data[u]
                 /\ (u \in data_keys') = (u \in data_keys)
                 /\ last'.request = Nil]_vars

\* A voice message in DREAM_INPUT could not be transcribed: the session still waits
\* for the dream.
C29_Witness ==
    /\ last.handler = "handle_dream_input"
    /\ last.result = "no_transcript"
    /\ last.pre = DREAM_INPUT
    /\ user_states[last.user] = DREAM_INPUT

\* C32: a step of confirm on "no" goes from CONFIRMING to EDITING with the draft as it
\* was; a step of edit whose extraction succeeded goes from EDITING to CONFIRMING, puts
\* the extractor's record in the draft and leaves every other field of the draft (the
\* date and the raw input among them) as it was, and its request carried the draft's
\* raw input and record as they were, followed by the correction.
C32_EditKeepsInputAndDate ==
    [][\A u \in Users :
          /\ (last'.user = u /\ last'.handler = "confirm" /\ last'.result = "no")
                => /\ user_states[u] = CONFIRMING
                   /\ user_states'[u] = EDITING
                   /\ user_data'[u] = user_data[u]
                   /\ (u \in data_keys') = (u \in data_keys)
          /\ (last'.user = u /\ last'.handler = "edit" /\ last'.result = "extracted")
                => /\ user_states[u] = EDITING
                   /\ user_states'[u] = CONFIRMING
                   /\ user_data'[u].json_output \in ExtractorResults \ {"error", "undecodable"}
                   /\ user_data'[u] = [user_data[u] EXCEPT
                                          !.json_output = user_data'[u].json_output]
                   /\ Len(last'.request) = 3
                   /\ last'.request[1] = user_data[u].user_input
                   /\ last'.request[2] = user_data[u].json_output
                   /\ last'.request[3] # Nil]_vars

\* A correction other than the raw input was extracted into a record other than the one
\* the draft held, and the draft is back at the confirmation with its raw input.
C32_Witness ==
    /\ last.handler = "edit"
    /\ last.result = "extracted"
    /\ last.pre = EDITING
    /\ user_states[last.user] = CONFIRMING
    /\ last.request[3] # last.request[1]
    /\ last.request[2] # user_data[last.user].json_output
    /\ user_data[last.user].user_input = last.request[1]
    /\ user_data[last.user].date # Nil

\* C34: a step of manual_input on a text that is well-formed JSON, sent by a user who
\* is set up, ends with the session state None and an empty draft, whatever the session
\* held before.
C34_ManualJsonReturnsToIdle ==
    [][\A u \in Users, m \in Messages :
          (/\ manual_input(u, m)
           /\ json_loads(m.text).kind # "invalid"
           /\ u \in user_setup_complete)
              => /\ user_states'[u] = Nil
                 /\ u \in data_keys'
                 /\ user_data'[u] = EmptyDraft]_vars

\* C37: in every reachable state the draft of a user holds what the handler of the
\* user's state reads: a date in AWAITING_INPUT; a date, a raw input and a record in
\* CONFIRMING and EDITING; the dream text in DREAM_CONFIRMING and DREAM_EDITING; the
\* thought text in THOUGHTS_CONFIRMING and THOUGHTS_EDITING; and no handler has ended
\* in a KeyError on the draft.
C37_DraftHoldsWhatPhaseReads ==
    \A u \in Users :
        /\ user_states[u] = AWAITING_INPUT
              => u \in data_keys /\ user_data[u].date # Nil
        /\ user_states[u] \in {CONFIRMING, EDITING}
              => /\ u \in data_keys
                 /\ user_data[u].date # Nil
                 /\ user_data[u].user_input # Nil
                 /\ user_data[u].json_output # Nil
        /\ user_states[u] \in {DREAM_CONFIRMING, DREAM_EDITING}
              => u \in data_keys /\ user_data[u].dream_text # Nil
        /\ user_states[u] \in {THOUGHTS_CONFIRMING, THOUGHTS_EDITING}
              => u \in data_keys /\ user_data[u].thought_text # Nil
        /\ (last.user = u /\ last.result = "KeyError")
              => last.handler \notin {"handle_date_selection", "handle_custom_date",
                                      "handle_input", "confirm", "edit", "edit_dream",
                                      "edit_thoughts", "confirm_dream",
                                      "confirm_thoughts"}

\* The settings of a user in memory, as save_user_settings would write them, and the
\* settings the bucket holds for the user.
MemorySettings(u) ==
    [sheet_id |-> IF u \in sheet_keys THEN user_sheets[u] ELSE Nil,
     config |-> IF u \in config_keys THEN FULL_CONFIGs[u] ELSE EmptyConfig]

PersistedSettings(u) == [sheet_id |-> blobs[u].sheet_id, config |-> blobs[u].config]

\* C39: a step of handle_updated_config that does not end in a saved update leaves the
\* configuration (with its timezone) of every user in memory as it was; and after every
\* step the settings of every user in memory are the settings the bucket holds.
C39_UpdateAllOrNothing ==
    [][/\ \A u \in Users :
             (last'.handler = "handle_updated_config" /\ last'.result # "updated")
                => /\ FULL_CONFIGs'[u] = FULL_CONFIGs[u]
                   /\ (u \in config_keys') = (u \in config_keys)
       /\ \A u \in Users : MemorySettings(u)' = PersistedSettings(u)']_vars

\* C40: a step that handles /start or /help is a step of start or help_command, whatever
\* the state of the sender; it leaves the session state, the draft and its presence of
\* every user as they were; and every message that carries no command goes, after the
\* step, to the handler it would have gone to before: the handler of the state the
\* command found.
C40_StartAndHelpKeepTheFlow ==
    [][\A u \in Users :
          (last'.user = u /\ last'.command \in {"start", "help"})
              => /\ last'.handler = IF last'.command = "start" THEN "start"
                                    ELSE "help_command"
                 /\ user_states' = user_states
                 /\ user_data' = user_data
                 /\ data_keys' = data_keys
                 /\ last'.pre = user_states'[u]
                 /\ \A m \in Messages :
                       CommandOf(m) = Nil
                          => /\ Dispatch(user_states'[u], m) = Dispatch(user_states[u], m)
                             /\ Dispatch(user_states'[u], m) # Nil
                                   => \E i \in 1..Len(HandlerTable) :
                                         /\ HandlerTable[i].name = Dispatch(user_states'[u], m)
                                         /\ HandlerTable[i].command = Nil
                                         /\ HandlerTable[i].state = last'.pre]_vars

\* /help was sent at the confirmation of a habits draft, and the draft is still there to
\* confirm.
C40_Witness ==
    /\ last.handler = "help_command"
    /\ last.pre = CONFIRMING
    /\ user_states[last.user] = CONFIRMING
    /\ user_data[last.user].json_output # Nil
    /\ Dispatch(user_states[last.user], TextMsg("Yes")) = "confirm"

-----------------------------------------------------------------------------
(* Properties of the aggregate *)

\* The positions of "datetime" and "date" in the header of "Diary Raw" of sheet sid.
DatetimeCol(sid) == IndexOf(raw[sid].header, "datetime")
DateCol(sid) == IndexOf(raw[sid].header, "date")

\* The positions of the raw rows of a day, and the latest datetime among them.
RawRowsOf(sid, day) == {i \in 1..Len(raw[sid].rows) : raw[sid].rows[i][DateCol(sid)] = day}
RawDays(sid) == {raw[sid].rows[i][DateCol(sid)] : i \in 1..Len(raw[sid].rows)}
DtOfRaw(sid, i) == strptime_datetime(raw[sid].rows[i][DatetimeCol(sid)])
MaxDtOf(sid, day) ==
    CHOOSE t \in {DtOfRaw(sid, i) : i \in RawRowsOf(sid, day)} :
        \A i \in RawRowsOf(sid, day) : DtOfRaw(sid, i) <= t

\* The positions of the rows of "Diary" of a day.
DiaryRowsOf(sid, day) ==
    {j \in 1..Len(diary[sid].rows) : diary[sid].rows[j][DateCol(sid)] = day}

\* The rebuild that followed the last append wrote "Diary" of sheet sid.
Rebuilt(sid) == last.handler = "confirm" /\ last.result = "appended" /\ last.rebuild = "done"

\* C6: whenever "Diary" has just been rebuilt from a raw log made of appends, it has
\* exactly one row for each date that occurs in the raw rows and no row of another
\* date, and the datetime of that row is the latest datetime among the raw rows of
\* that date.
C6_OneLatestRowPerDate ==
    \A sid \in SheetIds :
        Rebuilt(sid) =>
            /\ \A day \in RawDays(sid) :
                   /\ Cardinality(DiaryRowsOf(sid, day)) = 1
                   /\ \A j \in DiaryRowsOf(sid, day) :
                          strptime_datetime(diary[sid].rows[j][DatetimeCol(sid)])
                              = MaxDtOf(sid, day)
            /\ \A j \in 1..Len(diary[sid].rows) :
                   diary[sid].rows[j][DateCol(sid)] \in RawDays(sid)

\* Three appends, the dates out of order, two rows of one date with different
\* datetimes, and the rebuild has written the aggregate.
C6_Witness ==
    \E sid \in SheetIds :
        /\ Rebuilt(sid)
        /\ Len(raw[sid].rows) = 3
        /\ raw[sid].rows[1][DateCol(sid)] = "2024-01-02"
        /\ raw[sid].rows[2][DateCol(sid)] = "2024-01-01"
        /\ raw[sid].rows[3][DateCol(sid)] = "2024-01-02"
        /\ DtOfRaw(sid, 1) < DtOfRaw(sid, 3)
        /\ Len(diary[sid].rows) = 2

\* C7: whenever "Diary" has just been rebuilt, the row of each date is the raw row of
\* that date with the latest datetime that was appended last.
C7_LastAppendedWinsTie ==
    \A sid \in SheetIds :
        Rebuilt(sid) =>
            \A day \in RawDays(sid) :
                LET top == {i \in RawRowsOf(sid, day) : DtOfRaw(sid, i) = MaxDtOf(sid, day)}
                    newest == CHOOSE i \in top : \A k \in top : k <= i
                IN  \A j \in DiaryRowsOf(sid, day) :
                        diary[sid].rows[j] = raw[sid].rows[newest]

\* C8: whenever a confirmed record has just been appended and the rebuild that
\* followed has written "Diary", the row of "Diary" for the record's date is the row
\* that was appended: datetime, date, raw_input and the habit cells are the same.
C8_RoundTrip ==
    \A sid \in SheetIds :
        Rebuilt(sid) =>
            LET row == raw[sid].rows[Len(raw[sid].rows)]
            IN  /\ DiaryRowsOf(sid, row[DateCol(sid)]) # {}
                /\ \A j \in DiaryRowsOf(sid, row[DateCol(sid)]) : diary[sid].rows[j] = row

\* C15: whenever "Diary" has just been rebuilt, its data rows are in ascending order
\* of their datetime, whatever the order of the appends and of their dates.
C15_AggregateSortedByDatetime ==
    \A sid \in SheetIds :
        Rebuilt(sid) =>
            \A j \in 1..(Len(diary[sid].rows) - 1) :
                strptime_datetime(diary[sid].rows[j][DatetimeCol(sid)])
                    <= strptime_datetime(diary[sid].rows[j + 1][DatetimeCol(sid)])

\* A record of the later date comes first, then a backdated one, then a later record
\* of the first date: the aggregate has the backdated row first and that one after it.
C15_Witness ==
    \E sid \in SheetIds :
        /\ Rebuilt(sid)
        /\ Len(raw[sid].rows) = 3
        /\ raw[sid].rows[1][DateCol(sid)] = "2024-01-02"
        /\ raw[sid].rows[2][DateCol(sid)] = "2024-01-01"
        /\ raw[sid].rows[3][DateCol(sid)] = "2024-01-02"
        /\ DtOfRaw(sid, 1) = DtOfRaw(sid, 2) /\ DtOfRaw(sid, 2) < DtOfRaw(sid, 3)
        /\ diary[sid].rows = <<raw[sid].rows[2], raw[sid].rows[3]>>

-----------------------------------------------------------------------------
(* Header reconciliation on its own: sync_sheet_columns applied to any header *)

\* The cells a header row is made of: the fixed names in the case the bot writes and
\* in another, and a habit.
HeaderNames == {"datetime", "date", "Date", "raw_input", "x"}

Headers == UNION {[1..n -> HeaderNames] : n \in 0..MaxHdrLen}

\* list(updated_config["habits"].keys()) of the configurations reconciled with.
HabitLists == {<< >>, <<"x">>, <<"y", "x">>, <<"Date", "y">>}

\* "Diary Raw" has any header; probe keeps the header it began with, the habit names
\* and the header after the first reconciliation.
InitHdr ==
    /\ InitMemory
    /\ shared = SheetIds
    /\ \E h \in Headers, H \in HabitLists :
          /\ raw = [s \in SheetIds |-> NewWorksheet(h)]
          /\ probe = [h0 |-> h, habits |-> H, once |-> << >>, runs |-> 0]
    /\ diary = [s \in SheetIds |-> NoWorksheet]
    /\ dreams = [s \in SheetIds |-> NoWorksheet]
    /\ thoughts = [s \in SheetIds |-> NoWorksheet]

\* sync_sheet_columns runs with the habit names, a first and a second time.
SyncColumns ==
    /\ probe.runs < 2
    /\ raw' = [s \in SheetIds |-> sync_sheet_columns(raw[s], probe.habits)]
    /\ probe' = [probe EXCEPT !.runs = @ + 1,
                              !.once = IF probe.runs = 0 THEN raw'["s1"].header ELSE @]
    /\ last' = [NoEvent EXCEPT !.handler = "sync_sheet_columns"]
    /\ UNCHANGED <<session_vars, settings_vars, diary, dreams, thoughts, shared, now,
                   inflight>>

NextHdr == SyncColumns

SpecHdr == InitHdr /\ [][NextHdr]_vars

\* How often name occurs in the header s.
Count(s, name) == Cardinality({i \in 1..Len(s) : s[i] = name})

\* The columns of a header that are none of datetime, date and raw_input; a blank
\* cell of the header row is no column.
RECURSIVE NonFixed(_)
NonFixed(s) ==
    IF s = << >> THEN << >>
    ELSE IF Lower(Head(s)) \in {"datetime", "date", "raw_input", ""} THEN NonFixed(Tail(s))
         ELSE <<Head(s)>> \o NonFixed(Tail(s))

IsPrefix(s, t) == Len(s) <= Len(t) /\ SubSeq(t, 1, Len(s)) = s

\* C9: after sync_sheet_columns has run twice with the same habit names, the header
\* is the one the first run left; and a habit name the header did not have occurs in
\* it once after the first run and after the second.
C9_ReconcileIdempotent ==
    /\ probe.runs = 2 => raw["s1"].header = probe.once
    /\ probe.runs >= 1 =>
           \A i \in 1..Len(probe.habits) :
               Count(probe.h0, probe.habits[i]) = 0
                   => Count(raw["s1"].header, probe.habits[i]) = 1

\* A header with a fixed name in another case, a fixed name twice and out of place,
\* reconciled twice with a habit it had and one it had not.
C9_Witness ==
    /\ probe.runs = 2
    /\ probe.h0 = <<"Date", "x", "datetime", "datetime">>
    /\ probe.habits = <<"y", "x">>
    /\ Count(raw["s1"].header, "y") = 1

C11_FixedColumnsFirst ==
    probe.runs >= 1 =>
        /\ Len(raw["s1"].header) >= 3
        /\ SubSeq(raw["s1"].header, 1, 3) = <<"datetime", "date", "raw_input">>

\* C12: after sync_sheet_columns no column name occurs twice in the header of
\* "Diary Raw": datetime, date and raw_input occur once each (in whatever letter
\* case), every other name at most once.
C12_NoDuplicateColumns ==
    probe.runs >= 1 =>
        /\ \A name \in {"datetime", "date", "raw_input"} :
               Count(LowerAll(raw["s1"].header), name) = 1
        /\ \A i \in 1..Len(raw["s1"].header) :
               raw["s1"].header[i] # "" => Count(raw["s1"].header, raw["s1"].header[i]) = 1

-----------------------------------------------------------------------------
(* The sync engine under configuration updates and confirmed appends *)

\* list(updated_config["habits"].keys()) of the configurations a user moves between:
\* habits are added, removed and replaced.
ConfigHabits == {<< >>, <<"x">>, <<"y">>, <<"x", "y">>}

\* The spreadsheet has been linked; probe keeps the header of "Diary Raw" before the
\* last configuration update, the habit names of that update and the number of updates.
InitUpd ==
    /\ InitMemory
    /\ shared = SheetIds
    /\ raw \in [SheetIds -> {CreatedWorksheet(ws, Nil) :
                               ws \in {NoWorksheet} \cup {NewWorksheet(h) : h \in UserHeaders}}]
    /\ diary = [s \in SheetIds |-> CreatedWorksheet(NoWorksheet, Nil)]
    /\ dreams = [s \in SheetIds |-> NoWorksheet]
    /\ thoughts = [s \in SheetIds |-> NoWorksheet]
    /\ probe = [prev |-> raw["s1"].header, habits |-> << >>, updates |-> 0]

\* A configuration is accepted: the store part of handle_updated_config
\* (bot.py:861-862), sync_sheet_columns on "Diary Raw".
UpdateColumns ==
    /\ probe.updates < MaxUpdates
    /\ \E H \in ConfigHabits :
          /\ raw' = [s \in SheetIds |-> sync_sheet_columns(raw[s], H)]
          /\ probe' = [prev |-> raw["s1"].header, habits |-> H,
                       updates |-> probe.updates + 1]
    /\ last' = [NoEvent EXCEPT !.handler = "sync_sheet_columns"]
    /\ UNCHANGED <<session_vars, settings_vars, diary, dreams, thoughts, shared, now,
                   inflight>>

\* A draft with a value for either habit is confirmed and the store takes it: the
\* store part of confirm, append and rebuild both going through.
AppendOne ==
    \E sid \in SheetIds :
        LET draft == [EmptyDraft EXCEPT !.date = "2024-01-01", !.user_input = "ate well",
                                        !.json_output = "{\"x\": true, \"y\": \"jog\"}"]
        IN  /\ CanAppend(raw[sid], TRUE)
            /\ SaveConfirmed(sid, draft, TRUE, "none")
            /\ last' = [NoEvent EXCEPT !.handler = "confirm", !.result = "appended",
                                       !.rebuild = SaveRebuild(sid, draft, TRUE, "none")]
            /\ UNCHANGED <<session_vars, settings_vars, dreams, thoughts, shared, now,
                           inflight, probe>>

NextUpd == UpdateColumns \/ AppendOne

SpecUpd == InitUpd /\ [][NextUpd]_vars

\* C13: after every configuration update, each column the header of "Diary Raw" had
\* before the update is in the header after it (a fixed column in whatever letter
\* case), whether the habits of the new configuration name it or not.
C13_HeaderNeverShrinks ==
    \A i \in 1..Len(probe.prev) :
        \/ Count(raw["s1"].header, probe.prev[i]) > 0
        \/ /\ Lower(probe.prev[i]) \in {"datetime", "date", "raw_input"}
           /\ Count(LowerAll(raw["s1"].header), Lower(probe.prev[i])) > 0

\* Two updates: the first configuration has the habit y, the second has neither x nor
\* y, and both columns are in the header after it.
C13_Witness ==
    /\ probe.updates = 2
    /\ probe.habits = << >>
    /\ Count(probe.prev, "x") = 1 /\ Count(probe.prev, "y") = 1
    /\ Count(raw["s1"].header, "x") = 1 /\ Count(raw["s1"].header, "y") = 1

CellAt(row, i) == IF i \in 1..Len(row) THEN row[i] ELSE ""

\* C38: a step of sync_sheet_columns leaves every row of "Diary Raw" aligned with the
\* header: for every row and every column name the header has before and after, the
\* row's cell under that name after the step is its cell under that name before.
C38_RowsStayAligned ==
    [][last'.handler = "sync_sheet_columns"
          => \A sid \in SheetIds :
                LET before == raw[sid]
                    after == raw'[sid]
                IN  /\ Len(after.rows) = Len(before.rows)
                    /\ \A r \in 1..Len(before.rows) :
                          \A i \in 1..Len(before.header) :
                             LET name == before.header[i]
                             IN  (/\ name # ""
                                  /\ IndexOf(before.header, name) = i
                                  /\ IndexOf(after.header, name) # 0)
                                    => CellAt(after.rows[r], IndexOf(after.header, name))
                                          = CellAt(before.rows[r], i)]_vars

-----------------------------------------------------------------------------
(* The confirming step of the three flows over a linked or unlinked spreadsheet *)

\* The drafts a flow has gathered when it asks for the confirmation: date, input and
\* record (bot.py:399-411, 432-443, 489-501), the dream (bot.py:1052-1076), the thought
\* (bot.py:1190-1211).
ConfirmingDrafts(st) ==
    IF st = CONFIRMING THEN ConfirmedDrafts
    ELSE IF st = DREAM_CONFIRMING THEN {[EmptyDraft EXCEPT !.dream_text = "ate well"]}
    ELSE {[EmptyDraft EXCEPT !.thought_text = "ate well"]}

\* "Diary Raw" as a linked spreadsheet has it: absent (the user removed it), as
\* create_diary_sheets left it, or with the row of an earlier confirmation.
ConfirmingRaws ==
    LET made == {CreatedWorksheet(ws, Nil) :
                    ws \in {NoWorksheet} \cup {NewWorksheet(h) : h \in UserHeaders}}
    IN  {NoWorksheet} \cup made
        \cup {[ws EXCEPT !.rows = <<BuildRow(ws.header, "2024-01-01", DatetimeStr(0),
                                             "ate well", json_loads("{\"x\": 1}"))>>] :
                 ws \in made}

\* The user is asked to confirm a draft; the spreadsheet is linked or not, shared with
\* the bot's account or not.
InitConfirm ==
    /\ user_states \in [Users -> {CONFIRMING, DREAM_CONFIRMING, THOUGHTS_CONFIRMING}]
    /\ user_data \in [Users -> UNION {ConfirmingDrafts(st) :
                                        st \in {CONFIRMING, DREAM_CONFIRMING,
                                                THOUGHTS_CONFIRMING}}]
    /\ \A u \in Users : user_data[u] \in ConfirmingDrafts(user_states[u])
    /\ data_keys = Users
    /\ sheet_keys \in {{}, Users}
    /\ user_sheets = [u \in Users |-> IF u \in sheet_keys THEN "s1" ELSE Nil]
    /\ FULL_CONFIGs = [u \in Users |-> [habits |-> <<"x">>, timezone |-> Nil]]
    /\ config_keys = Users
    /\ user_setup_complete = Users
    /\ blobs = [u \in Users |->
                  SavedBlob(u, user_sheets, sheet_keys, FULL_CONFIGs, config_keys)]
    /\ now = 0
    /\ inflight = {}
    /\ last = NoEvent
    /\ shared \in SUBSET SheetIds
    /\ raw \in [SheetIds -> ConfirmingRaws]
    /\ diary = [s \in SheetIds |->
                  aggregate_diary(raw[s], CreatedWorksheet(NoWorksheet, Nil), "none")]
    /\ dreams \in [SheetIds -> {NoWorksheet,
                                NewWorksheet(<<"datetime", "date", "raw_input", "dream">>)}]
    /\ thoughts \in [SheetIds -> {NoWorksheet,
                                  NewWorksheet(<<"datetime", "date", "raw_input", "thought">>)}]
    /\ probe = Nil

\* The answers to "Is this correct?".
ConfirmMessages == {TextMsg(t) : t \in {"Yes", "yes", "YES", "no", "cancel", "ate well"}}

NextConfirm ==
    \E m \in ConfirmMessages :
        \/ confirm("u1", m)
        \/ confirm_dream("u1", m)
        \/ confirm_thoughts("u1", m)

SpecConfirm == InitConfirm /\ [][NextConfirm]_vars

\* What a confirming handler notes when the answer was "yes".
YesResults == {"appended", "append_failed", "no_sheet", "KeyError"}

\* C18: after a confirming handler of the habits, dream or thoughts flow has taken the
\* answer "yes" in any letter case, the session is idle and the draft empty, whether
\* the row was appended, the append failed or no sheet could be opened.
C18_YesAlwaysLeavesIdle ==
    (last.handler \in {"confirm", "confirm_dream", "confirm_thoughts"}
     /\ last.result \in YesResults)
        => /\ user_states[last.user] = Nil
           /\ last.user \in data_keys
           /\ user_data[last.user] = EmptyDraft

\* The dream was confirmed and the store refused the row: the session is idle.
C18_Witness ==
    /\ last.handler = "confirm_dream"
    /\ last.result = "append_failed"
    /\ last.pre = DREAM_CONFIRMING
    /\ user_states[last.user] = Nil

\* C19: a step of confirm that appended the raw row and whose rebuild of the aggregate
\* failed leaves "Diary Raw" with the rows it had and the new row after them, notes the
\* append as succeeded and leaves the session idle; and the aggregate is rebuilt or
\* changed only in a step that appended the row.
C19_AppendKeptWhenRebuildFails ==
    [][/\ (last'.handler = "confirm" /\ last'.result = "appended"
           /\ last'.rebuild = "failed")
          => LET sid == user_sheets[last'.user]
             IN  /\ Len(raw'[sid].rows) = Len(raw[sid].rows) + 1
                 /\ SubSeq(raw'[sid].rows, 1, Len(raw[sid].rows)) = raw[sid].rows
                 /\ raw'[sid].rows[Len(raw'[sid].rows)] =
                       BuildRow(raw[sid].header, DateVal(user_data[last'.user]),
                                DatetimeStr(now), user_data[last'.user].user_input,
                                ConfirmedRecord(user_data[last'.user]))
                 /\ user_states'[last'.user] = Nil
                 /\ user_data'[last'.user] = EmptyDraft
       /\ (last'.rebuild # Nil \/ diary' # diary)
          => /\ last'.handler = "confirm" /\ last'.result = "appended"
             /\ Len(raw'[user_sheets[last'.user]].rows) =
                   Len(raw[user_sheets[last'.user]].rows) + 1]_vars

\* The row was appended to rows already there and the rebuild failed.
C19_Witness ==
    /\ last.handler = "confirm"
    /\ last.result = "appended"
    /\ last.rebuild = "failed"
    /\ Len(raw["s1"].rows) = 2
    /\ user_states[last.user] = Nil

\* C31: a step of confirm, confirm_dream or confirm_thoughts on a text that, in lower
\* case, is none of yes, no and cancel leaves the session state and the draft of the
\* user as they were and leaves every worksheet as it was.
C31_OtherAnswerChangesNothing ==
    [][\A u \in Users, m \in ConfirmMessages :
          (/\ Lower(m.text) \notin {"yes", "no", "cancel"}
           /\ confirm(u, m) \/ confirm_dream(u, m) \/ confirm_thoughts(u, m))
              => /\ user_states'[u] = user_states[u]
                 /\ user_data'[u] = user_data[u]
                 /\ (u \in data_keys') = (u \in data_keys)
                 /\ <<raw, diary, dreams, thoughts>>' = <<raw, diary, dreams, thoughts>>]_vars

\* Another answer was given to the confirmation of a dream, with the spreadsheet linked
\* and shared: the draft is still there to confirm.
C31_Witness ==
    /\ last.handler = "confirm_dream"
    /\ last.result = "invalid"
    /\ user_states[last.user] = DREAM_CONFIRMING
    /\ user_data[last.user].dream_text # Nil
    /\ last.user \in sheet_keys
    /\ user_sheets[last.user] \in shared

-----------------------------------------------------------------------------
(* parse_habit_properties: the extraction schema of a habit configuration *)

MaxHabits == 2

\* A field a habit does not have.
Absent == "absent"

\* A 'type': a type name, or a list of type names; NoType when the habit has none.
TypeName(t) == [list |-> FALSE, names |-> <<t>>]
TypeList(ts) == [list |-> TRUE, names |-> ts]
NoType == [list |-> FALSE, names |-> << >>]

\* The habits of a configuration: a dict, kept as the sequence of its items in
\* insertion order, each item a habit name and the habit's fields (numbers as their
\* JSON text).
HabitInfos ==
    [type : {NoType, TypeName("integer"), TypeName("string"),
             TypeList(<<"integer", "null">>)},
     description : {Absent, "d"},
     minimum : {Absent, "0"},
     maximum : {Absent, "10"}]

HabitConfigs ==
    {<< >>}
    \cup {<< <<n, i>> >> : n \in {"x", "y"}, i \in HabitInfos}
    \cup {<< <<"x", i>>, <<"y", j>> >> : i \in HabitInfos, j \in HabitInfos}
    \cup {<< <<"y", i>>, <<"x", j>> >> : i \in HabitInfos, j \in HabitInfos}

\* [str(t) for t in habit_type] for a list, str(habit_type) otherwise (bot.py:259-263);
\* the type names are strings already.
StrOfType(habit_type) ==
    IF habit_type.list
    THEN TypeList([k \in 1..Len(habit_type.names) |-> PyStr([t |-> "str", v |-> habit_type.names[k]])])
    ELSE TypeName(PyStr([t |-> "str", v |-> habit_type.names[1]]))

\* d[key] = value on a dict kept as the sequence of its items.
RECURSIVE DictSet(_, _, _)
DictSet(d, key, value) ==
    IF d = << >> THEN << <<key, value>> >>
    ELSE IF Head(d)[1] = key THEN << <<key, value>> >> \o Tail(d)
    ELSE <<Head(d)>> \o DictSet(Tail(d), key, value)

\* The loop of parse_habit_properties (bot.py:256-273) over the items left, from the
\* properties and required names built so far; KeyError is raised, and nothing
\* returned, when a habit has no 'type' or no 'description'.
RECURSIVE ParseHabits(_, _, _)
ParseHabits(items, habit_properties, required_habits) ==
    IF items = << >>
    THEN [raised |-> Nil, habit_properties |-> habit_properties,
          required_habits |-> required_habits]
    ELSE LET habit_name == Head(items)[1]
             habit_info == Head(items)[2]
         IN  IF habit_info.type = NoType \/ habit_info.description = Absent
             THEN [raised |-> "KeyError", habit_properties |-> << >>,
                   required_habits |-> << >>]
             ELSE ParseHabits(Tail(items),
                              DictSet(habit_properties, habit_name,
                                      [type |-> StrOfType(habit_info.type),
                                       description |-> habit_info.description,
                                       minimum |-> habit_info.minimum,
                                       maximum |-> habit_info.maximum]),
                              Append(required_habits, habit_name))

\* Only the first habit is compiled.
parse_first_habit(habits_config) ==
    ParseHabits(SubSeq(habits_config, 1, IF Len(habits_config) > 1 THEN 1 ELSE Len(habits_config)),
                << >>, << >>)

\* parse_habit_properties(habits_config), bot.py:256-275
parse_habit_properties(habits_config) == ParseHabits(habits_config, << >>, << >>)

\* validate_habits(habits) on the fields the model keeps (validate_config.py:49-118):
\* a type, a description, and minimum and maximum only for a type that allows them.
HabitsValid(habits_config) ==
    \A k \in 1..Len(habits_config) :
        LET habit_info == habits_config[k][2]
        IN  /\ habit_info.type # NoType
            /\ habit_info.description # Absent
            /\ (habit_info.minimum # Absent \/ habit_info.maximum # Absent)
                   => \E i \in 1..Len(habit_info.type.names) :
                          habit_info.type.names[i] \in {"number", "integer"}

\* A configuration is drawn and compiled.
InitParse ==
    /\ InitMemory
    /\ InitStore
    /\ probe \in {[habits_config |-> c, done |-> FALSE,
                     result |-> ParseHabits(<< >>, << >>, << >>)] :
                     c \in {c \in HabitConfigs : Len(c) <= MaxHabits}}

ParseConfig ==
    /\ ~probe.done
    /\ probe' = [probe EXCEPT !.done = TRUE,
                              !.result = parse_habit_properties(probe.habits_config)]
    /\ last' = [NoEvent EXCEPT !.handler = "parse_habit_properties"]
    /\ UNCHANGED <<session_vars, settings_vars, store_vars, now, inflight>>

NextParse == ParseConfig

SpecParse == InitParse /\ [][NextParse]_vars

\* C25: for every configuration whose habits pass validate_habits, the properties
\* parse_habit_properties returns have the habit names of the configuration as their
\* keys, one property for each habit that carries the habit's type, description,
\* minimum and maximum, and the required list holds every habit name exactly once.
C25_OnePropertyPerHabit ==
    (probe.done /\ HabitsValid(probe.habits_config))
        => LET c == probe.habits_config
               props == probe.result.habit_properties
               reqs == probe.result.required_habits
           IN  /\ probe.result.raised = Nil
               /\ Len(props) = Len(c)
               /\ \A k \in 1..Len(c) :
                     /\ Cardinality({j \in 1..Len(props) : props[j][1] = c[k][1]}) = 1
                     /\ Cardinality({j \in 1..Len(reqs) : reqs[j] = c[k][1]}) = 1
                     /\ \A j \in 1..Len(props) :
                           props[j][1] = c[k][1]
                              => /\ props[j][2].type = c[k][2].type
                                 /\ props[j][2].description = c[k][2].description
                                 /\ props[j][2].minimum = c[k][2].minimum
                                 /\ props[j][2].maximum = c[k][2].maximum
               /\ Len(reqs) = Len(c)

\* A configuration of two habits, one of them with bounds and one with a list of
\* types, has been compiled.
C25_Witness ==
    /\ probe.done /\ probe.result.raised = Nil
    /\ Len(probe.habits_config) = 2
    /\ HabitsValid(probe.habits_config)
    /\ probe.habits_config[1][2].minimum = "0"
    /\ probe.habits_config[2][2].type = TypeList(<<"integer", "null">>)
    /\ Len(probe.result.required_habits) = 2

-----------------------------------------------------------------------------
(* append_to_user_sheet on its own: the row of any draft under any header *)

MaxRowHdrLen == 4

\* The cells a header row read by row_values(1) is made of: the fixed names in the
\* case the bot writes and in another, two habits, and a blank cell.
RowHeaderNames == {"datetime", "date", "Date", "raw_input", "x", "y", ""}

RowHeaders == {row_values(h) : h \in UNION {[1..n -> RowHeaderNames] : n \in 0..MaxRowHdrLen}}

\* The drafts confirm hands over: with or without a raw input, the record of the
\* extractor or none that decodes.
RowDrafts ==
    {[EmptyDraft EXCEPT !.date = "2024-01-01", !.user_input = t, !.json_output = j] :
        t \in {Nil, "ate well"},
        j \in {Nil, "{\"x\": 1}", "{\"x\": true, \"y\": \"jog\"}"}}

\* "Diary Raw" has any header and no rows; probe holds the draft to be appended.
InitRow ==
    /\ InitMemory
    /\ shared = SheetIds
    /\ raw \in [SheetIds -> {NewWorksheet(h) : h \in RowHeaders}]
    /\ diary = [s \in SheetIds |-> NoWorksheet]
    /\ dreams = [s \in SheetIds |-> NoWorksheet]
    /\ thoughts = [s \in SheetIds |-> NoWorksheet]
    /\ probe \in {[draft |-> d, done |-> FALSE] : d \in RowDrafts}

\* append_to_user_sheet appends the row of the draft (bot.py:187-221).
AppendRow ==
    /\ ~probe.done
    /\ CanAppend(raw["s1"], TRUE)
    /\ raw' = [raw EXCEPT !["s1"] = append_to_user_sheet(@, probe.draft, DateVal(probe.draft),
                                                        DatetimeStr(now))]
    /\ probe' = [probe EXCEPT !.done = TRUE]
    /\ last' = [NoEvent EXCEPT !.handler = "append_to_user_sheet", !.result = "appended"]
    /\ UNCHANGED <<session_vars, settings_vars, diary, dreams, thoughts, shared, now,
                   inflight>>

NextRow == AppendRow \/ (~probe.done /\ Tick)

SpecRow == InitRow /\ [][NextRow]_vars

\* C27: the row append_to_user_sheet has appended has one cell for each column of the
\* header, in the order of the header: the timestamp of the confirmation under a
\* datetime column, the date of the draft under a date column, the raw input of the
\* draft under a raw_input column, the record's value under a column that is a key of
\* the record, and the empty cell under every other column.
C27_RowAlignedToHeader ==
    probe.done =>
        LET header == raw["s1"].header
            row == raw["s1"].rows[Len(raw["s1"].rows)]
            record == ConfirmedRecord(probe.draft)
        IN  /\ Len(raw["s1"].rows) = 1
            /\ Len(row) = Len(header)
            /\ \A i \in 1..Len(header) :
                  CASE Lower(header[i]) = "datetime" -> row[i] = DatetimeStr(now)
                    [] Lower(header[i]) = "date" -> row[i] = probe.draft.date
                    [] Lower(header[i]) = "raw_input" ->
                          row[i] = (IF probe.draft.user_input = Nil THEN ""
                                    ELSE probe.draft.user_input)
                    [] OTHER ->
                          IF \E k \in 1..Len(record.keys) : record.keys[k] = header[i]
                          THEN row[i] = PyStr(record.vals[header[i]])
                          ELSE row[i] = ""

\* A record with x and y was appended under a header that has y before the fixed
\* columns, the date column in capitals and no column x.
C27_Witness ==
    /\ probe.done
    /\ raw["s1"].header = <<"y", "Date", "", "datetime">>
    /\ raw["s1"].rows = << <<"jog", "2024-01-01", "", DatetimeStr(now)>> >>
    /\ now = 1

-----------------------------------------------------------------------------
(* Linking, configuring and confirming over a shared spreadsheet *)

MaxAppends == 1

\* The settings bucket the process starts on holds the blob of a user whose
\* configuration has the habit x and who has linked no sheet yet;
\* load_all_user_settings (bot.py:135-146) has filled the dictionaries from it.
InitLinked ==
    /\ user_states = [u \in Users |-> Nil]
    /\ user_data = [u \in Users |-> EmptyDraft]
    /\ data_keys = {}
    /\ blobs = [u \in Users |->
                  IF u = "u1"
                  THEN [exists |-> TRUE, sheet_id |-> Nil,
                        config |-> [habits |-> <<"x">>, timezone |-> Nil]]
                  ELSE NoBlob]
    /\ user_sheets = [u \in Users |-> blobs[u].sheet_id]
    /\ sheet_keys = {u \in Users : blobs[u].exists}
    /\ FULL_CONFIGs = [u \in Users |-> blobs[u].config]
    /\ config_keys = {u \in Users : blobs[u].exists}
    /\ user_setup_complete = {u \in Users : blobs[u].exists}
    /\ now = 0
    /\ inflight = {}
    /\ last = NoEvent
    /\ shared = SheetIds
    /\ raw = [s \in SheetIds |-> NoWorksheet]
    /\ diary = [s \in SheetIds |-> NoWorksheet]
    /\ dreams = [s \in SheetIds |-> NoWorksheet]
    /\ thoughts = [s \in SheetIds |-> NoWorksheet]
    /\ probe = Nil

\* What the user sends: linking, the habits flow to its confirmation, and a
\* configuration update.
LinkedMessages ==
    {TextMsg(t) : t \in {"/set_sheet s1", "/habits", "today", "ate well", "Yes",
                         "/update_config",
                         "{\"telegram_token\": \"t\", \"openai_api_key\": \"k\", \"habits\": {\"x\": {\"type\": \"integer\", \"description\": \"d\"}}, \"reminder_time\": \"09:00\", \"data_directory\": \"d\"}"}}

HandleLinked(u, m) ==
    \/ set_sheet(u, m)
    \/ habits_command(u, m)
    \/ handle_date_selection(u, m)
    \/ handle_input(u, m)
    \/ confirm(u, m)
    \/ update_config_command(u, m)
    \/ handle_updated_config(u, m)

\* The run is followed up to the first MaxAppends rows of "Diary Raw".
NextLinked ==
    /\ \A sid \in SheetIds : Len(raw[sid].rows) < MaxAppends
    /\ \/ \E m \in LinkedMessages : HandleLinked("u1", m)
       \/ Restart

SpecLinked == InitLinked /\ [][NextLinked]_vars

\* C28: in a step of confirm that appends a row, the header of "Diary Raw" has a
\* column for every habit of the user's configuration, and the value the record has
\* for a configured habit is in the row under that habit's column.
C28_HeaderReconciledBeforeAppend ==
    [][\A u \in Users :
          (last'.user = u /\ last'.handler = "confirm" /\ last'.result = "appended")
              => LET header == raw'[user_sheets[u]].header
                     rows == raw'[user_sheets[u]].rows
                     record == ConfirmedRecord(user_data[u])
                     habits == FULL_CONFIGs[u].habits
                 IN  \A k \in 1..Len(habits) :
                        /\ \E i \in 1..Len(header) : header[i] = habits[k]
                        /\ (\E j \in 1..Len(record.keys) : record.keys[j] = habits[k])
                              => \E i \in 1..Len(header) :
                                    /\ header[i] = habits[k]
                                    /\ rows[Len(rows)][i] = PyStr(record.vals[habits[k]])]_vars

-----------------------------------------------------------------------------
(* The store part of confirm as webhook runs it: one thread for each "yes" *)

\* webhook (bot.py:1307-1324) starts a thread for every update, and confirm resets the
\* session only after the store part (bot.py:548-549): a second "yes" that arrives
\* while the first is at the store is dispatched to confirm as well.  inflight holds
\* the threads of confirm that are at the store: the thread, the user, the step it has
\* done, and the header and rows its aggregate_diary has read and computed.

ThreadIds == 1..MaxInFlight

\* The user is asked to confirm a draft for a spreadsheet that is linked and shared.
InitStoreConc ==
    /\ user_states = [u \in Users |-> IF u = "u1" THEN CONFIRMING ELSE Nil]
    /\ user_data \in [Users -> ConfirmedDrafts \cup {EmptyDraft}]
    /\ user_data["u1"] \in ConfirmedDrafts
    /\ user_data["u2"] = EmptyDraft
    /\ data_keys = {"u1"}
    /\ sheet_keys = {"u1"}
    /\ user_sheets = [u \in Users |-> IF u \in sheet_keys THEN "s1" ELSE Nil]
    /\ FULL_CONFIGs = [u \in Users |-> IF u = "u1" THEN [habits |-> <<"x">>, timezone |-> Nil]
                                       ELSE EmptyConfig]
    /\ config_keys = {"u1"}
    /\ user_setup_complete = {"u1"}
    /\ blobs = [u \in Users |->
                  IF u = "u1"
                  THEN SavedBlob(u, user_sheets, sheet_keys, FULL_CONFIGs, config_keys)
                  ELSE NoBlob]
    /\ now = 0
    /\ inflight = {}
    /\ last = NoEvent
    /\ shared = SheetIds
    /\ raw \in [SheetIds -> {CreatedWorksheet(ws, Nil) :
                               ws \in {NoWorksheet} \cup {NewWorksheet(h) : h \in UserHeaders}}]
    /\ diary = [s \in SheetIds |-> CreatedWorksheet(NoWorksheet, Nil)]
    /\ dreams = [s \in SheetIds |-> NoWorksheet]
    /\ thoughts = [s \in SheetIds |-> NoWorksheet]
    /\ probe = Nil

\* confirm up to the return of append_to_user_sheet (bot.py:504-532): the answer is
\* "yes", the sheet is linked and the store takes the row.
ConfirmAppend(id, u, m) ==
    /\ Dispatch(user_states[u], m) = "confirm"
    /\ Lower(m.text) = "yes"
    /\ u \in data_keys /\ u \in sheet_keys
    /\ \A t \in inflight : t.id # id
    /\ CanAppend(raw[user_sheets[u]], TRUE)
    /\ raw' = [raw EXCEPT ![user_sheets[u]] =
                  append_to_user_sheet(@, user_data[u], DateVal(user_data[u]),
                                       DatetimeStr(now))]
    /\ inflight' = inflight \cup {[id |-> id, user |-> u, pc |-> "appended",
                                   header |-> << >>, rows |-> << >>]}
    /\ NoteStore(u, "confirm", m, "appending", Nil)
    /\ UNCHANGED <<session_vars, settings_vars, diary, dreams, thoughts, shared, now,
                   probe>>

\* aggregate_diary reads "Diary Raw" and computes the rows (bot.py:769-798); with
\* nothing to write it returns.
RebuildRead(t) ==
    /\ t \in inflight /\ t.pc = "appended"
    /\ LET raw_ws == raw[user_sheets[t.user]]
           agg == aggregate_rows(raw_ws.header, raw_ws.rows)
       IN  inflight' = (inflight \ {t}) \cup
                       {[t EXCEPT !.pc = IF agg.written THEN "read" ELSE "done",
                                  !.header = raw_ws.header, !.rows = agg.rows]}
    /\ last' = [NoEvent EXCEPT !.user = t.user, !.handler = "aggregate_diary",
                               !.result = "read"]
    /\ UNCHANGED <<session_vars, settings_vars, store_vars, now, probe>>

\* agg_sheet.clear() (bot.py:804)
RebuildClear(t) ==
    /\ t \in inflight /\ t.pc = "read"
    /\ diary' = [diary EXCEPT ![user_sheets[t.user]] = NewWorksheet(<< >>)]
    /\ inflight' = (inflight \ {t}) \cup {[t EXCEPT !.pc = "cleared"]}
    /\ last' = [NoEvent EXCEPT !.user = t.user, !.handler = "aggregate_diary",
                               !.result = "cleared"]
    /\ UNCHANGED <<session_vars, settings_vars, raw, dreams, thoughts, shared, now, probe>>

\* agg_sheet.update(values=agg_rows, range_name="A1") (bot.py:805)
RebuildUpdate(t) ==
    /\ t \in inflight /\ t.pc = "cleared"
    /\ diary' = [diary EXCEPT ![user_sheets[t.user]] =
                    [exists |-> TRUE, header |-> t.header, rows |-> t.rows]]
    /\ inflight' = (inflight \ {t}) \cup {[t EXCEPT !.pc = "done"]}
    /\ last' = [NoEvent EXCEPT !.user = t.user, !.handler = "aggregate_diary",
                               !.result = "updated"]
    /\ UNCHANGED <<session_vars, settings_vars, raw, dreams, thoughts, shared, now, probe>>

\* confirm after aggregate_diary returned (bot.py:548-549)
ConfirmEnd(t) ==
    /\ t \in inflight /\ t.pc = "done"
    /\ SetSession(t.user, Nil, EmptyDraft)
    /\ inflight' = inflight \ {t}
    /\ last' = [NoEvent EXCEPT !.user = t.user, !.handler = "confirm",
                               !.pre = user_states[t.user], !.result = "appended",
                               !.rebuild = "done"]
    /\ UNCHANGED <<settings_vars, store_vars, now, probe>>

NextStoreConc ==
    \/ \E id \in ThreadIds : ConfirmAppend(id, "u1", TextMsg("Yes"))
    \/ \E t \in inflight : RebuildRead(t)
    \/ \E t \in inflight : RebuildClear(t)
    \/ \E t \in inflight : RebuildUpdate(t)
    \/ \E t \in inflight : ConfirmEnd(t)
    \/ Tick

SpecStoreConc == InitStoreConc /\ [][NextStoreConc]_vars

\* C22: at any time at most one thread of a user is at the store, and when no thread
\* of the user is at the store after a confirmation has finished, "Diary" is what
\* aggregate_diary makes of the "Diary Raw" of that moment.
C22_StoreOperationsSerialized ==
    \A u \in Users :
        /\ Cardinality({t \in inflight : t.user = u}) <= 1
        /\ ({t \in inflight : t.user = u} = {} /\ last.user = u /\ last.handler = "confirm"
            /\ u \in sheet_keys)
              => diary[user_sheets[u]] =
                    aggregate_diary(raw[user_sheets[u]], diary[user_sheets[u]], "none")

\* C24: the data rows of "Diary Raw" change only in a step of confirm that handles
\* "yes" in CONFIRMING, and then by one row appended after the rows that were there;
\* and that step is the only one that appends the row of its draft: no other confirm of
\* the user that has appended the row of the same draft is still running.
C24_RawLogAppendOnly ==
    [][\A sid \in SheetIds :
          raw'[sid].rows # raw[sid].rows
              => /\ last'.handler = "confirm"
                 /\ user_states[last'.user] = CONFIRMING
                 /\ user_sheets[last'.user] = sid
                 /\ Len(raw'[sid].rows) = Len(raw[sid].rows) + 1
                 /\ SubSeq(raw'[sid].rows, 1, Len(raw[sid].rows)) = raw[sid].rows
                 /\ \A t \in inflight : t.user # last'.user]_vars

-----------------------------------------------------------------------------
(* The conversation engine as webhook runs it: one thread for each update *)

\* webhook (bot.py:1307-1324) starts a thread for every update and returns; a thread
\* of handle_input or edit waits for the extractor while other threads run.  inflight
\* holds the threads that wait: the user, the handler, and the session state and draft
\* the handler left when it made the call.

\* handle_input or edit up to the extractor call (bot.py:423-453, 558-582).
BeginExtraction(u, m) ==
    /\ Dispatch(user_states[u], m) \in {"handle_input", "edit"}
    /\ ~IsCancel(m)
    /\ Cardinality(inflight) < MaxInFlight
    /\ u \in data_keys /\ u \in config_keys
    /\ \E text \in InputTexts(m) \ {Nil} :
          LET h == Dispatch(user_states[u], m)
              data == IF h = "handle_input" THEN StoreUserInput(u, text) ELSE user_data
          IN  /\ h = "edit" => (user_data[u].user_input # Nil /\ user_data[u].json_output # Nil)
              /\ user_data' = data
              /\ inflight' = inflight \cup {[user |-> u, handler |-> h,
                                             state |-> user_states[u], data |-> data[u]]}
              /\ Note(u, h, m, "calling")
    /\ UNCHANGED <<user_states, data_keys, settings_vars, store_vars, now, probe>>

\* The extractor call of a waiting thread returns and the handler runs to its end
\* (bot.py:484-501, 613-632).
FinishExtraction(t) ==
    /\ t \in inflight
    /\ \E out \in ExtractorResults :
          /\ AfterExtraction(t.user, user_data, out)
          /\ last' = [NoEvent EXCEPT !.user = t.user, !.handler = t.handler,
                                     !.pre = user_states[t.user],
                                     !.result = IF out \in {"error", "undecodable"}
                                                THEN out ELSE "extracted"]
    /\ inflight' = inflight \ {t}
    /\ UNCHANGED <<settings_vars, store_vars, now, probe>>

\* The messages of a habits flow up to the confirmation, and the cancellations.
ConcMessages == {TextMsg(t) : t \in {"/set_sheet s1", "/habits", "today", "ate well",
                                     "no", "cancel", "/cancel"}}

HandleConc(u, m) ==
    \/ cancel_command(u, m)
    \/ habits_command(u, m)
    \/ handle_date_selection(u, m)
    \/ handle_input(u, m)
    \/ confirm(u, m)
    \/ edit(u, m)
    \/ set_sheet(u, m)

NextConc ==
    \/ \E m \in ConcMessages : HandleConc("u1", m)
    \/ \E m \in ConcMessages : BeginExtraction("u1", m)
    \/ \E t \in inflight : FinishExtraction(t)
    \/ Restart

SpecConc == Init /\ [][NextConc]_vars

\* C4: at most one handler of a user is running at any time, and while a handler
\* waits for the extractor the user's session state and draft are as that handler
\* left them: no other message of the user is handled in between.
C4_OneMessageAtATime ==
    \A t \in inflight :
        /\ \A t2 \in inflight : t2.user = t.user => t2 = t
        /\ user_states[t.user] = t.state
        /\ user_data[t.user] = t.data

\* C5: whenever an extractor call of handle_input or edit has just returned for a
\* user whose session a cancellation had meanwhile left idle, the session is still
\* idle and the draft is empty.
C5_CancelDuringExtraction ==
    \A u \in Users :
        (last.user = u /\ last.handler \in {"handle_input", "edit"} /\ last.pre = Nil)
            => (user_states[u] = Nil /\ user_data[u] = EmptyDraft)

-----------------------------------------------------------------------------
(* Two users at once: the handlers of both, interleaved as webhook runs them *)

\* What the two users send: linking, the habits flow up to the confirmation, the
\* configuration update, and the cancellations.
UserMessages == {TextMsg(t) : t \in {"/set_sheet s1", "/habits", "today", "ate well",
                                     "Yes", "cancel", "/update_config"}}

\* The process has started on a bucket that holds the settings of both users, each
\* saved by set_sheet: load_all_user_settings (bot.py:135-146) has filled the
\* dictionaries and marked both as set up.
InitUsers ==
    /\ user_states = [u \in Users |-> Nil]
    /\ user_data = [u \in Users |-> EmptyDraft]
    /\ data_keys = {}
    /\ blobs = [u \in Users |-> [exists |-> TRUE, sheet_id |-> "s1", config |-> EmptyConfig]]
    /\ user_sheets = [u \in Users |-> blobs[u].sheet_id]
    /\ sheet_keys = Users
    /\ FULL_CONFIGs = [u \in Users |-> blobs[u].config]
    /\ config_keys = Users
    /\ user_setup_complete = Users
    /\ now = 0
    /\ inflight = {}
    /\ last = NoEvent
    /\ InitStore
    /\ probe = Nil

\* One extractor call is outstanding at a time; while its thread waits, the handlers
\* of both users run.
HandleUsers(u, m) ==
    \/ habits_command(u, m)
    \/ handle_date_selection(u, m)
    \/ handle_input(u, m)
    \/ confirm(u, m)
    \/ set_sheet(u, m)
    \/ update_config_command(u, m)
    \/ handle_updated_config(u, m)

NextUsers ==
    \/ \E u \in Users, m \in UserMessages : HandleUsers(u, m)
    \/ \E u \in Users, m \in UserMessages : inflight = {} /\ BeginExtraction(u, m)
    \/ \E t \in inflight : FinishExtraction(t)

SpecUsers == InitUsers /\ [][NextUsers]_vars

\* C23: a step in which a handler of user a runs, or an extractor call of a returns,
\* leaves the session state, the draft, the configuration with its timezone, the sheet
\* link and the set-up flag of every other user b as they were.
C23_OtherUsersUntouched ==
    [][\A a \in Users, b \in Users :
          (last'.user = a /\ b # a)
              => /\ user_states'[b] = user_states[b]
                 /\ user_data'[b] = user_data[b]
                 /\ (b \in data_keys') = (b \in data_keys)
                 /\ FULL_CONFIGs'[b] = FULL_CONFIGs[b]
                 /\ (b \in config_keys') = (b \in config_keys)
                 /\ user_sheets'[b] = user_sheets[b]
                 /\ (b \in sheet_keys') = (b \in sheet_keys)
                 /\ (b \in user_setup_complete') = (b \in user_setup_complete)]_vars

\* One user has cancelled while the other is in the middle of the habits flow with a
\* draft of its own.
C23_Witness ==
    /\ last.user = "u1"
    /\ last.result = "cancelled"
    /\ user_states["u1"] = Nil
    /\ user_states["u2"] = CONFIRMING
    /\ user_data["u2"].json_output # Nil

-----------------------------------------------------------------------------
(* Entering a date and entering manual JSON: what the handlers take and what they
   turn away *)

\* What the user sends: the two commands that open the flows, the replies of the date
\* keyboard, dates typed by hand (one in the layout YYYY-MM-DD, one that names no
\* calendar day, one with a one-digit month and day), a plain sentence and a JSON
\* object.
DateMessages ==
    {TextMsg(t) : t \in {"/habits", "/manual", "today", "YESTERDAY", "custom date",
                         "cancel", "2024-01-01", "2024-13-40", "2024-1-2", "ate well",
                         "{\"x\": 1}"}}

HandleDate(u, m) ==
    \/ habits_command(u, m)
    \/ handle_date_selection(u, m)
    \/ handle_custom_date(u, m)
    \/ manual_input_prompt(u, m)
    \/ manual_input(u, m)

NextDate ==
    \/ \E u \in Users, m \in DateMessages : HandleDate(u, m)
    \/ Tick

SpecDate == InitUsers /\ [][NextDate]_vars

\* The texts of the model that are a calendar day written as YYYY-MM-DD: four digits,
\* two digits, two digits.
IsIsoDate(t) == t \in {"2024-01-01"}

\* C30: a step of handle_date_selection on a text other than today, yesterday, custom
\* date or cancel, a step of handle_custom_date on a text that is not a calendar day
\* written as YYYY-MM-DD, and a step of manual_input on a text that is not JSON, each
\* leave the session state and the draft of the user as they were.
C30_InputErrorKeepsState ==
    [][\A u \in Users, m \in DateMessages :
          (/\ Lower(m.text) # "cancel"
           /\ \/ /\ handle_date_selection(u, m)
                 /\ Lower(m.text) \notin {"today", "yesterday", "custom date"}
              \/ /\ handle_custom_date(u, m)
                 /\ ~IsIsoDate(m.text)
              \/ /\ manual_input(u, m)
                 /\ json_loads(m.text).kind = "invalid")
              => /\ user_states'[u] = user_states[u]
                 /\ user_data'[u] = user_data[u]
                 /\ (u \in data_keys') = (u \in data_keys)]_vars

\* The same for the texts the handlers themselves turn away.
RejectedInputKeepsState ==
    [][\A u \in Users :
          (/\ last'.user = u
           /\ last'.handler \in {"handle_date_selection", "handle_custom_date",
                                 "manual_input"}
           /\ last'.result = "invalid")
              => /\ user_states'[u] = user_states[u]
                 /\ user_data'[u] = user_data[u]
                 /\ (u \in data_keys') = (u \in data_keys)]_vars

-----------------------------------------------------------------------------
(* The habits flow from /habits to the appended row, over a linked and shared
   spreadsheet *)

\* What the user sends: the command, the choices of a date, a description, the answers
\* to the confirmation.
FlowMessages ==
    {TextMsg(t) : t \in {"/habits", "today", "YESTERDAY", "custom date", "2024-01-01",
                         "ate well", "Yes", "no"}}

\* The process has started on a bucket that holds the settings of the users, saved by
\* set_sheet, whose create_diary_sheets made the worksheets of the shared spreadsheet.
InitFlow ==
    /\ user_states = [u \in Users |-> Nil]
    /\ user_data = [u \in Users |-> EmptyDraft]
    /\ data_keys = {}
    /\ blobs = [u \in Users |-> [exists |-> TRUE, sheet_id |-> "s1", config |-> EmptyConfig]]
    /\ user_sheets = [u \in Users |-> blobs[u].sheet_id]
    /\ sheet_keys = Users
    /\ FULL_CONFIGs = [u \in Users |-> blobs[u].config]
    /\ config_keys = Users
    /\ user_setup_complete = Users
    /\ now = 0
    /\ inflight = {}
    /\ last = NoEvent
    /\ shared = SheetIds
    /\ raw = [s \in SheetIds |-> CreatedWorksheet(NoWorksheet, Nil)]
    /\ diary = [s \in SheetIds |-> CreatedWorksheet(NoWorksheet, Nil)]
    /\ dreams = [s \in SheetIds |-> CreatedWorksheet(NoWorksheet, "dream")]
    /\ thoughts = [s \in SheetIds |-> CreatedWorksheet(NoWorksheet, "thought")]
    /\ probe = Nil

\* The handlers that do not wait for the extractor.
HandleFlow(u, m) ==
    \/ habits_command(u, m)
    \/ handle_date_selection(u, m)
    \/ handle_custom_date(u, m)
    \/ confirm(u, m)

\* Each message is handled to its end before the next one is taken; the run is followed
\* up to the row after the first MaxAppends rows.
NextFlowSeq ==
    /\ \A sid \in SheetIds : Len(raw[sid].rows) <= MaxAppends
    /\ \/ \E m \in FlowMessages :
             HandleFlow("u1", m) \/ handle_input("u1", m) \/ edit("u1", m)
       \/ Tick

SpecFlowSeq == InitFlow /\ [][NextFlowSeq]_vars

\* As webhook runs them: the thread of handle_input or edit waits for the extractor
\* while the threads of later messages run; one extractor call is outstanding at a
\* time.
NextFlow ==
    /\ \A sid \in SheetIds : Len(raw[sid].rows) <= MaxAppends
    /\ \/ \E m \in FlowMessages : HandleFlow("u1", m)
       \/ \E m \in FlowMessages : inflight = {} /\ BeginExtraction("u1", m)
       \/ \E t \in inflight : FinishExtraction(t)
       \/ Tick

SpecFlow == InitFlow /\ [][NextFlow]_vars

\* The row a step has appended to "Diary Raw" of spreadsheet sid.
AppendedRow(sid) == raw[sid].rows'[Len(raw[sid].rows')]

\* C33: the row of a step of confirm that appends carries the date of the draft under
\* date, the raw input of the draft under raw_input and the time of the step under
\* datetime, and both are set; and the date and the raw input of a draft are those of
\* the flow the user is in: /habits starts from an empty draft, a date comes into the
\* draft only by handle_date_selection or handle_custom_date, and a raw input only by
\* handle_input.
C33_RowOfThisFlow ==
    [][\A u \in Users :
          /\ (last'.user = u /\ last'.handler = "confirm" /\ last'.result = "appended")
                => LET sid == user_sheets[u]
                   IN  /\ user_data[u].date # Nil
                       /\ user_data[u].user_input # Nil
                       /\ AppendedRow(sid)[DateCol(sid)] = user_data[u].date
                       /\ AppendedRow(sid)[IndexOf(raw[sid].header, "raw_input")]
                              = user_data[u].user_input
                       /\ AppendedRow(sid)[DatetimeCol(sid)] = DatetimeStr(now)
          /\ (last'.user = u /\ last'.handler = "habits_command" /\ last'.result = "done")
                => user_data'[u] = EmptyDraft
          /\ (user_data'[u].date # user_data[u].date /\ user_data'[u].date # Nil)
                => /\ last'.handler \in {"handle_date_selection", "handle_custom_date"}
                   /\ user_states[u] \in {SELECTING_DATE, AWAITING_CUSTOM_DATE}
          /\ (user_data'[u].user_input # user_data[u].user_input
              /\ user_data'[u].user_input # Nil)
                => /\ last'.handler = "handle_input"
                   /\ user_states[u] = AWAITING_INPUT]_vars

-----------------------------------------------------------------------------
(* The dream flow and the thoughts flow over a linked and shared spreadsheet *)

\* What the user sends: the two commands, texts, a voice message, the answers to the
\* confirmation.
TextFlowMessages ==
    {TextMsg(t) : t \in {"/dream", "/thoughts", "today", "Yes", "no", "cancel"}}
        \cup {VoiceMsg}

\* The process has started on a bucket that holds the settings of the users; the
\* spreadsheet is shared, "Dreams" and "Thoughts" are there as create_diary_sheets
\* makes them, or are not (the spreadsheet was linked before the bot had them).
InitText ==
    /\ user_states = [u \in Users |-> Nil]
    /\ user_data = [u \in Users |-> EmptyDraft]
    /\ data_keys = {}
    /\ blobs = [u \in Users |-> [exists |-> TRUE, sheet_id |-> "s1", config |-> EmptyConfig]]
    /\ user_sheets = [u \in Users |-> blobs[u].sheet_id]
    /\ sheet_keys = Users
    /\ FULL_CONFIGs = [u \in Users |-> blobs[u].config]
    /\ config_keys = Users
    /\ user_setup_complete = Users
    /\ now = 0
    /\ inflight = {}
    /\ last = NoEvent
    /\ shared = SheetIds
    /\ raw = [s \in SheetIds |-> CreatedWorksheet(NoWorksheet, Nil)]
    /\ diary = [s \in SheetIds |-> CreatedWorksheet(NoWorksheet, Nil)]
    /\ dreams \in [SheetIds -> {NoWorksheet, CreatedWorksheet(NoWorksheet, "dream")}]
    /\ thoughts \in [SheetIds -> {NoWorksheet, CreatedWorksheet(NoWorksheet, "thought")}]
    /\ probe = Nil

HandleText(u, m) ==
    \/ dream_command(u, m)
    \/ thoughts_command(u, m)
    \/ handle_dream_input(u, m)
    \/ handle_thoughts_input(u, m)
    \/ confirm_dream(u, m)
    \/ confirm_thoughts(u, m)
    \/ edit_dream(u, m)
    \/ edit_thoughts(u, m)

\* The run is followed up to the first MaxAppends rows.
NextText ==
    /\ \A sid \in SheetIds : Len(dreams[sid].rows) + Len(thoughts[sid].rows) < MaxAppends
    /\ \/ \E m \in TextFlowMessages : HandleText("u1", m)
       \/ Tick

SpecText == InitText /\ [][NextText]_vars

\* Worksheet after is worksheet before with one more row [datetime, date, text, text]
\* of the present moment, under the header it had or the header made for column.
TextRowAppended(before, after, column, text) ==
    /\ after.exists
    /\ after.header = IF before.exists THEN before.header
                      ELSE <<"datetime", "date", "raw_input", column>>
    /\ after.rows = Append(before.rows, <<DatetimeStr(now), DateStr(DayOf(now)),
                                          text, text>>)

\* The flows of the two kinds of text: handler names, states, draft field, column.
TextFlows ==
    {[input |-> "handle_dream_input", edit |-> "edit_dream", confirm |-> "confirm_dream",
      confirming |-> DREAM_CONFIRMING, field |-> "dream_text", column |-> "dream"],
     [input |-> "handle_thoughts_input", edit |-> "edit_thoughts",
      confirm |-> "confirm_thoughts", confirming |-> THOUGHTS_CONFIRMING,
      field |-> "thought_text", column |-> "thought"]}

\* C35: with the spreadsheet linked and shared, a draft in DREAM_CONFIRMING
\* (THOUGHTS_CONFIRMING) holds its text, so the store takes the row whenever it
\* answers; a step of confirm_dream (confirm_thoughts) on "yes" that saves appends
\* exactly the row [datetime, date, text, text] of the moment to "Dreams" ("Thoughts"),
\* text being the text of the draft, and writes nothing to the other worksheets; a
\* step on any other answer changes no worksheet; and the text of the draft is always
\* the text of the last message handle_*_input or edit_* took.
C35_TextRowAppended ==
    [][\A u \in Users, f \in TextFlows :
          LET sid == user_sheets[u]
              sheets == IF f.column = "dream" THEN dreams ELSE thoughts
              sheets2 == IF f.column = "dream" THEN dreams' ELSE thoughts'
              others == IF f.column = "dream" THEN <<raw, diary, thoughts>>
                        ELSE <<raw, diary, dreams>>
              others2 == IF f.column = "dream" THEN <<raw, diary, thoughts>>'
                         ELSE <<raw, diary, dreams>>'
          IN  /\ user_states[u] = f.confirming
                    => CanSaveText(u, sheets[sid], f.field, TRUE)
              /\ (last'.user = u /\ last'.handler = f.confirm /\ last'.result = "appended")
                    => /\ last'.pre = f.confirming
                       /\ TextRowAppended(sheets[sid], sheets2[sid], f.column,
                                          user_data[u][f.field])
                       /\ others2 = others
              /\ (/\ last'.user = u /\ last'.handler = f.confirm
                  /\ last'.result \in {"no", "invalid", "cancelled", "no_sheet"})
                    => <<raw, diary, dreams, thoughts>>' = <<raw, diary, dreams, thoughts>>
              /\ \A m \in TextFlowMessages :
                    (/\ last'.result = "done"
                     /\ \/ f.input = "handle_dream_input" /\ handle_dream_input(u, m)
                        \/ f.input = "handle_dream_input" /\ edit_dream(u, m)
                        \/ f.input = "handle_thoughts_input" /\ handle_thoughts_input(u, m)
                        \/ f.input = "handle_thoughts_input" /\ edit_thoughts(u, m))
                       => user_data'[u][f.field] \in InputTexts(m) \ {Nil}
              /\ user_data'[u][f.field] # user_data[u][f.field]
                    => \/ user_data'[u][f.field] = Nil
                       \/ last'.user = u /\ last'.handler \in {f.input, f.edit}]_vars

\* The text of a dream was saved at a later moment than the start, as the first row of
\* a "Dreams" worksheet that was made for it.
C35_Witness ==
    /\ last.handler = "confirm_dream"
    /\ last.result = "appended"
    /\ dreams["s1"].rows = <<<<DatetimeStr(now), DateStr(DayOf(now)), "today", "today">>>>
    /\ dreams["s1"].header = <<"datetime", "date", "raw_input", "dream">>
    /\ now = 1
    /\ thoughts["s1"] = NoWorksheet
    /\ user_states[last.user] = Nil

-----------------------------------------------------------------------------
(* The dream flow and the thoughts flow side by side: user u1 is sent a sequence of
   messages and user u2 the same sequence with dream and thoughts exchanged, message
   by message *)

\* What the users are sent.
TwinMessages ==
    {TextMsg(t) : t \in {"/dream", "/thoughts", "/manual", "/update_config", "ate well",
                         "Yes", "no", "cancel"}}

\* Dream and thoughts exchanged: in a message, a state, a handler name, a draft.
RenameMessage(m) ==
    IF m.text = "/dream" THEN TextMsg("/thoughts")
    ELSE IF m.text = "/thoughts" THEN TextMsg("/dream")
    ELSE m

RenameState(st) ==
    CASE st = DREAM_INPUT -> THOUGHTS_INPUT
      [] st = DREAM_CONFIRMING -> THOUGHTS_CONFIRMING
      [] st = DREAM_EDITING -> THOUGHTS_EDITING
      [] st = THOUGHTS_INPUT -> DREAM_INPUT
      [] st = THOUGHTS_CONFIRMING -> DREAM_CONFIRMING
      [] st = THOUGHTS_EDITING -> DREAM_EDITING
      [] OTHER -> st

RenameHandler(h) ==
    CASE h = "dream_command" -> "thoughts_command"
      [] h = "handle_dream_input" -> "handle_thoughts_input"
      [] h = "confirm_dream" -> "confirm_thoughts"
      [] h = "edit_dream" -> "edit_thoughts"
      [] h = "thoughts_command" -> "dream_command"
      [] h = "handle_thoughts_input" -> "handle_dream_input"
      [] h = "confirm_thoughts" -> "confirm_dream"
      [] h = "edit_thoughts" -> "edit_dream"
      [] OTHER -> h

RenameDraft(d) ==
    [d EXCEPT !.dream_text = d.thought_text, !.thought_text = d.dream_text]

HandleTwin(u, m) ==
    \/ manual_input_prompt(u, m)
    \/ manual_input(u, m)
    \/ update_config_command(u, m)
    \/ handle_updated_config(u, m)
    \/ dream_command(u, m)
    \/ handle_dream_input(u, m)
    \/ confirm_dream(u, m)
    \/ edit_dream(u, m)
    \/ thoughts_command(u, m)
    \/ handle_thoughts_input(u, m)
    \/ confirm_thoughts(u, m)
    \/ edit_thoughts(u, m)

\* m is the message u1 was sent last: it carries the command the event records, went
\* to the handler the event records, and is the text that handler took (kept in the
\* draft by the input and edit handlers, told by the outcome otherwise).
SentToFirst(m) ==
    /\ last.user = "u1"
    /\ CommandOf(m) = last.command
    /\ Dispatch(last.pre, m) = last.handler
    /\ (Lower(m.text) = "cancel") = (last.result = "cancelled")
    /\ last.result = "done" /\ last.handler \in {"handle_dream_input", "edit_dream"}
          => user_data["u1"].dream_text = m.text
    /\ last.result = "done" /\ last.handler \in {"handle_thoughts_input", "edit_thoughts"}
          => user_data["u1"].thought_text = m.text
    /\ last.handler \in {"confirm_dream", "confirm_thoughts"}
          => /\ (Lower(m.text) = "no") = (last.result = "no")
             /\ (Lower(m.text) = "yes") = (last.result \in {"appended", "append_failed",
                                                           "no_sheet"})

\* The users take turns: u1 handles a message, then u2 handles the renamed message.
NextTwin ==
    \/ \E m \in TwinMessages : last.user # "u1" /\ HandleTwin("u1", m)
    \/ \E m \in TwinMessages : SentToFirst(m) /\ HandleTwin("u2", RenameMessage(m))

SpecTwin == InitUsers /\ [][NextTwin]_vars

\* C36: when u1 has handled a message, the renamed message goes, for u2, to the
\* renamed handler; and when u2 has handled it too, u2's session is u1's session
\* renamed: the state, the draft, the presence of the draft.
C36_DreamAndThoughtsCorrespond ==
    /\ last.user = "u1"
          => \E m \in TwinMessages :
                /\ SentToFirst(m)
                /\ Dispatch(user_states["u2"], RenameMessage(m)) = RenameHandler(last.handler)
    /\ last.user # "u1"
          => /\ user_states["u2"] = RenameState(user_states["u1"])
             /\ user_data["u2"] = RenameDraft(user_data["u1"])
             /\ ("u2" \in data_keys) = ("u1" \in data_keys)

=============================================================================
